---- MODULE Spec2Model ----
(***************************************************************************)
(* Process execution and logging core of ciscripts/util.py:               *)
(* IndentedLogger, Task, the three output strategies and execute.         *)
(*                                                                         *)
(* Text is a sequence of one-character strings.  sys.stderr is the        *)
(* sequence of the strings handed to sys.stderr.write, in order, that the *)
(* reader of the stream has not yet taken; the program never reads it.    *)
(***************************************************************************)
EXTENDS Integers, Sequences, FiniteSets, TLC

\* Bounds of the model.
MaxDepth == 2       \* deepest nesting of scopes the main flow opens
MaxDots == 1        \* timeouts the heartbeat ticker may see in one invocation
MaxTextLen == 3     \* longest text the main flow hands to message()
MaxOut == 2         \* most bytes the child writes to its stdout
MaxErr == 1         \* most bytes the child writes to its stderr
MaxThreadNames == 3 \* most threads the process creates in one run
PipeCap == 1        \* bytes a pipe holds before the child's write blocks

VARIABLES
    indent_level,                   \* IndentedLogger._indent_level
    printed_on_secondary_indents,   \* IndentedLogger._printed_on_secondary_indents
    nest_level,                     \* Task.nest_level
    stderr,                         \* writes made to sys.stderr, not yet taken by its reader
    stdout,                         \* writes made to sys.stdout, not yet taken by its reader
    scopes,                         \* the with-blocks the main flow is inside, innermost last
    pc,                             \* position of the main flow
    exc,                            \* exception propagating in the main flow, or NoExc
    last,                           \* the operation the main flow completed last, if
                                    \* nothing was taken or begun since
    call,                           \* arguments of the execute call in progress
    proc,                           \* the child process of that call
    pipe,                           \* bytes in flight in the child's stdout and stderr pipes
    closed,                         \* which of process.stdout, process.stderr are closed
    thr,                            \* the two reader threads
    queue,                          \* the readers' return queues (thread_output)
    ticker,                         \* the print_dots thread
    chan,                           \* the os.pipe() of long_running_suppressed_output
    local,                          \* local variables of execute and of the strategy
    container,                      \* note_failure calls the container received
    result,                         \* how the execute call ends
    environ,                        \* os.environ
    parent,                         \* calls the parent collaborator received
    envlast,                        \* the environment operation completed last
    flow,                           \* client threads running Task scopes of their own
    counter                         \* threading._counter: threads the process has named

logger_vars == <<indent_level, printed_on_secondary_indents, nest_level>>
out_vars == <<stderr, stdout>>
flow_vars == <<scopes, pc, exc, last>>
child_vars == <<proc, pipe>>
thread_vars == <<thr, queue, ticker>>
exec_vars == <<call, closed, chan, local, container, result>>

env_vars == <<environ, parent, envlast>>

conc_vars == <<flow, counter>>

vars == <<logger_vars, out_vars, flow_vars, child_vars, thread_vars, exec_vars, env_vars, conc_vars>>

NoExc == <<>>

----------------------------------------------------------------------------
\* Text helpers.

NL == "\n"
CR == "\r"

RECURSIVE Repeat(_, _)
\* Python's  s * n  for a string s: empty when n <= 0.
Repeat(s, n) == IF n <= 0 THEN <<>> ELSE s \o Repeat(s, n - 1)

RECURSIVE replaced(_, _, _, _, _)
\* What the characters lo..hi of s become in  s.replace(old, new): each occurrence
\* of old is replaced where it stands, so the two halves are replaced and joined.
replaced(s, lo, hi, old, new) ==
    IF lo > hi THEN <<>>
    ELSE IF lo = hi THEN (IF s[lo] = old THEN new ELSE <<s[lo]>>)
    ELSE replaced(s, lo, (lo + hi) \div 2, old, new)
             \o replaced(s, (lo + hi) \div 2 + 1, hi, old, new)

\* Python's  s.replace(old, new)  for a one-character old; the string it is called
\* on is a value, evaluated once before the call.
str_replace(s, old, new) ==
    CHOOSE r \in {replaced(x, 1, Len(x), old, new) : x \in {s}} : TRUE

RECURSIVE str_join(_, _)
\* Python's  sep.join(parts).
str_join(sep, parts) ==
    IF parts = <<>> THEN <<>>
    ELSE IF Len(parts) = 1 THEN parts[1]
    ELSE parts[1] \o sep \o str_join(sep, Tail(parts))

Digit(n) == <<"0", "1", "2", "3", "4", "5", "6", "7", "8", "9">>[n + 1]

RECURSIVE NatStr(_)
NatStr(n) == IF n < 10 THEN <<Digit(n)>> ELSE NatStr(n \div 10) \o <<Digit(n % 10)>>

\* Python's  str(n)  for an integer.
IntStr(n) == IF n < 0 THEN <<"-">> \o NatStr(0 - n) ELSE NatStr(n)

RECURSIVE FlatRange(_, _, _)
\* The characters of the writes lo..hi of ws, in order.
FlatRange(ws, lo, hi) ==
    IF lo > hi THEN <<>>
    ELSE IF lo = hi THEN ws[lo]
    ELSE FlatRange(ws, lo, (lo + hi) \div 2) \o FlatRange(ws, (lo + hi) \div 2 + 1, hi)

\* The characters of a sequence of writes, in order.
Flat(ws) == FlatRange(ws, 1, Len(ws))

----------------------------------------------------------------------------
\* IndentedLogger.

FourSpaces == <<" ", " ", " ", " ">>

\* message(): indent = IndentedLogger._indent_level * "    "
indent(level) == Repeat(FourSpaces, level)

\* Variant: only newlines are followed by the indent.
formatted_newlines_only(message_to_print, level) ==
    str_replace(message_to_print, NL, <<NL>> \o indent(level))

\* message(): the two replace() calls, "\r" first and "\n" second.
formatted(message_to_print, level) ==
    str_replace(str_replace(message_to_print, CR, <<CR>> \o indent(level)),
                NL, <<NL>> \o indent(level))

\* Variant: the message is printed, which goes to sys.stdout.
print_message_to_stdout(message) ==
    /\ stdout' = Append(stdout, message)
    /\ stderr' = stderr

\* print_message(): "{0}".format(message) written to sys.stderr.
print_message(message) ==
    /\ stderr' = Append(stderr, message)
    /\ stdout' = stdout

\* Variant: the flag is set by every message, whatever the level.
message_flag_any_level(level, flag) == TRUE

\* message(): the flag is set when the indent level is above zero.
message_flag(level, flag) == IF level > 0 THEN TRUE ELSE flag

\* The with-blocks on the stack note that a message was logged at depth > 0.
NoteNested(stack, level) ==
    [i \in 1..Len(stack) |->
        IF level > 0 THEN [stack[i] EXCEPT !.nested = TRUE] ELSE stack[i]]

\* IndentedLogger.message, lines 164-165: the test of the level and the flag. While
\* execute runs no thread assigns _indent_level, so the two lines are one step.
message_begin ==
    /\ printed_on_secondary_indents' =
           message_flag(indent_level, printed_on_secondary_indents)
    /\ UNCHANGED <<indent_level, nest_level, out_vars, scopes>>

\* IndentedLogger.message, lines 167-170: the indent is read and the text written.
message_write(message_to_print) ==
    /\ print_message(formatted(message_to_print, indent_level))
    /\ scopes' = NoteNested(scopes, indent_level)
    /\ UNCHANGED logger_vars

\* IndentedLogger.message(message_to_print) called while no other thread runs: the
\* whole call is one step.
message(message_to_print) ==
    /\ printed_on_secondary_indents' =
           message_flag(indent_level, printed_on_secondary_indents)
    /\ print_message(formatted(message_to_print, indent_level))
    /\ scopes' = NoteNested(scopes, indent_level)
    /\ UNCHANGED <<indent_level, nest_level>>

\* Variant: a dot counts as output printed while nested.
dot_sets_flag ==
    /\ stderr' = Append(stderr, <<".">>)
    /\ printed_on_secondary_indents' = message_flag(indent_level, printed_on_secondary_indents)
    /\ UNCHANGED <<indent_level, nest_level, stdout, scopes>>

\* IndentedLogger.dot()
dot == /\ stderr' = Append(stderr, <<".">>)
       /\ UNCHANGED <<logger_vars, stdout, scopes>>

\* Variant: the trailing newline is written at whatever depth the exit leaves.
exit_writes_newline_any_depth(level_after, flag) == flag

\* IndentedLogger.__exit__: does it write the trailing newline.
exit_writes_newline(level_after, flag) == level_after = 0 /\ flag

\* IndentedLogger.__enter__
logger__enter__ == indent_level' = indent_level + 1

\* Variant: the trailing newline is written and the flag is left as it is.
logger__exit___flag_kept ==
    /\ indent_level' = indent_level - 1
    /\ IF exit_writes_newline(indent_level - 1, printed_on_secondary_indents)
       THEN /\ stderr' = Append(stderr, <<NL>>)
            /\ UNCHANGED printed_on_secondary_indents
       ELSE UNCHANGED <<stderr, printed_on_secondary_indents>>

\* IndentedLogger.__exit__ (returns None: the exception is not swallowed).
logger__exit__ ==
    /\ indent_level' = indent_level - 1
    /\ IF exit_writes_newline(indent_level - 1, printed_on_secondary_indents)
       THEN /\ stderr' = Append(stderr, <<NL>>)
            /\ printed_on_secondary_indents' = FALSE
       ELSE UNCHANGED <<stderr, printed_on_secondary_indents>>

----------------------------------------------------------------------------
\* Task.

\* Variant: the first nested level still gets the top-level marker.
indicator_off_by_one(level) ==
    IF level <= 1 THEN <<"=", "=", ">">> ELSE <<".", ".", ".">>

\* Task.__init__: indicator = "==>" if Task.nest_level == 0 else "..."
indicator(level) == IF level = 0 THEN <<"=", "=", ">">> ELSE <<".", ".", ".">>

\* Task.__init__: "\n{0} {1}".format(indicator, description)
task_header(level, description) == <<NL>> \o indicator(level) \o <<" ">> \o description

\* Value a scope's __exit__ returns: None, so a pending exception propagates.
exit_swallows == FALSE

\* Variant: Task.__exit__ leaves the logger's scope and forgets its own counter.
task_exit_nest_kept(level) == level

\* Task.__exit__: the nest level after leaving.
task_exit_nest(level) == level - 1


----------------------------------------------------------------------------
\* The main flow outside execute: with-blocks and messages.

Descriptions == {<<"D">>}
TextChars == {"m", NL, CR}
Texts == UNION {[1..n -> TextChars] : n \in 0..MaxTextLen}

NoScope == [kind |-> "none", indent0 |-> 0, nest0 |-> 0, nested |-> FALSE]

NoLast == [op |-> "none", indent0 |-> 0, nest0 |-> 0, printed0 |-> FALSE,
           len0 |-> 0, scope |-> NoScope, exc0 |-> NoExc, arg |-> <<>>]

\* What the main flow remembers of an operation: its name and the state before it.
Did(op, scope, arg) ==
    [op |-> op, indent0 |-> indent_level, nest0 |-> nest_level,
     printed0 |-> printed_on_secondary_indents, len0 |-> Len(stderr),
     scope |-> scope, exc0 |-> exc, arg |-> arg]

\* The main flow is between operations and what it wrote has been taken.
Between == pc = "idle" /\ stderr = <<>> /\ stdout = <<>>

\* The main flow may go on with the next statement of a with-body.
MayStart == Between /\ exc = NoExc

\* The reader of the process's output takes what has been written so far
\* (the tests do so with a fresh CapturedOutput for each scenario).
Drain ==
    /\ pc = "idle"
    /\ stderr # <<>> \/ stdout # <<>> \/ last # NoLast
    /\ stderr' = <<>>
    /\ stdout' = <<>>
    /\ last' = NoLast
    /\ UNCHANGED <<logger_vars, scopes, pc, exc, child_vars, thread_vars, exec_vars,
                   env_vars, conc_vars>>

\* Task.__init__(description), the first half of  with Task(description):
TaskInit(description) ==
    /\ MayStart
    /\ Len(scopes) < MaxDepth
    /\ message(task_header(nest_level, description))
    /\ pc' = "with_task"
    /\ last' = Did("Task", NoScope, description)
    /\ UNCHANGED <<exc, child_vars, thread_vars, exec_vars,
                   env_vars, conc_vars>>

\* Variant: Task.__enter__ enters the logger's scope and forgets its own counter.
TaskEnter_nest_kept ==
    /\ pc = "with_task"
    /\ nest_level' = nest_level
    /\ logger__enter__
    /\ scopes' = Append(scopes, [kind |-> "Task", indent0 |-> indent_level,
                                 nest0 |-> nest_level, nested |-> FALSE])
    /\ pc' = "idle"
    /\ last' = Did("enter", NoScope, <<>>)
    /\ UNCHANGED <<printed_on_secondary_indents, out_vars, exc,
                   child_vars, thread_vars, exec_vars, env_vars, conc_vars>>

\* Task.__enter__
TaskEnter ==
    /\ pc = "with_task"
    /\ nest_level' = nest_level + 1
    /\ logger__enter__
    /\ scopes' = Append(scopes, [kind |-> "Task", indent0 |-> indent_level,
                                 nest0 |-> nest_level, nested |-> FALSE])
    /\ pc' = "idle"
    /\ last' = Did("enter", NoScope, <<>>)
    /\ UNCHANGED <<printed_on_secondary_indents, out_vars, exc,
                   child_vars, thread_vars, exec_vars,
                   env_vars, conc_vars>>

\* with IndentedLogger():  entered directly.
LoggerEnter ==
    /\ MayStart
    /\ Len(scopes) < MaxDepth
    /\ logger__enter__
    /\ scopes' = Append(scopes, [kind |-> "IndentedLogger", indent0 |-> indent_level,
                                 nest0 |-> nest_level, nested |-> FALSE])
    /\ last' = Did("enter", NoScope, <<>>)
    /\ UNCHANGED <<printed_on_secondary_indents, nest_level, out_vars, pc, exc,
                   child_vars, thread_vars, exec_vars,
                   env_vars, conc_vars>>

\* Task.__exit__ or IndentedLogger.__exit__ of the innermost with-block, on the
\* normal path and while an exception unwinds.
ScopeExit ==
    /\ Between
    /\ scopes # <<>>
    /\ LET top == scopes[Len(scopes)] IN
        /\ logger__exit__
        /\ nest_level' = IF top.kind = "Task" THEN task_exit_nest(nest_level)
                         ELSE nest_level
        /\ scopes' = SubSeq(scopes, 1, Len(scopes) - 1)
        /\ exc' = IF exit_swallows THEN NoExc ELSE exc
        /\ last' = Did("exit", top, <<>>)
    /\ UNCHANGED <<stdout, pc, child_vars, thread_vars, exec_vars,
                   env_vars, conc_vars>>

\* IndentedLogger().message(text) called by the body of a with-block.
Message(text) ==
    /\ MayStart
    /\ message(text)
    /\ last' = Did("message", NoScope, text)
    /\ UNCHANGED <<pc, exc, child_vars, thread_vars, exec_vars,
                   env_vars, conc_vars>>

\* IndentedLogger().dot() called by the main flow.
Dot ==
    /\ MayStart
    /\ dot
    /\ last' = Did("dot", NoScope, <<>>)
    /\ UNCHANGED <<pc, exc, child_vars, thread_vars, exec_vars, env_vars, conc_vars>>

\* The body of a with-block raises.
BodyRaise ==
    /\ MayStart
    /\ scopes # <<>>
    /\ exc' = <<"b", "o", "d", "y">>
    /\ last' = Did("raise", NoScope, <<>>)
    /\ UNCHANGED <<logger_vars, out_vars, scopes, pc, child_vars, thread_vars, exec_vars,
                   env_vars, conc_vars>>


----------------------------------------------------------------------------
\* execute: state of one call.

\* Names of environment variables.
Keys == {"K", "L"}

\* A variable of os.environ: unset, or set to a text.
Unset == [set |-> FALSE, val |-> <<>>]
EnvStr(text) == [set |-> TRUE, val |-> text]

\* The environment the process starts with.
HostEnviron == [k \in Keys |-> IF k = "K" THEN EnvStr(<<"b", ":", "a">>) ELSE Unset]

\* The env keyword of execute: not given, or a dict of variables (Unset: no such key).
NoEnvArg == [given |-> FALSE, dict |-> [k \in Keys |-> Unset]]
EnvDict(d) == [given |-> TRUE, dict |-> d]
EnvArgs ==
    {NoEnvArg,
     EnvDict([k \in Keys |-> Unset]),
     EnvDict([k \in Keys |-> IF k = "K" THEN EnvStr(<<"z">>) ELSE Unset]),
     EnvDict([k \in Keys |-> IF k = "L" THEN EnvStr(<<"y">>) ELSE Unset])}

\* kwargs.get("env") is true: the keyword is given and the dict is not empty.
env_given(env) == env.given /\ \E k \in Keys : env.dict[k].set

\* Variant: a variable the copy already has keeps its value.
dict_update_keeps_existing(d, other) ==
    [k \in Keys |-> IF d[k].set THEN d[k] ELSE other[k]]

\* Python's  d.update(other): every key of other is set in d.
dict_update(d, other) ==
    [k \in Keys |-> IF other[k].set THEN other[k] ELSE d[k]]

\* execute: env = os.environ.copy(), updated with the env keyword when it is given.
child_env(host, env) ==
    IF env_given(env) THEN dict_update(host, env.dict) ELSE host

Strategies == {"output_on_fail", "long_running_suppressed_output", "running_output"}
Commands == {<< <<"c">>, <<"a">> >>}
InstantFailArgs == {"None", "True"}             \* "None": the keyword is not given
OsErrors == {<<"E">>}                           \* str(e) of the OSError Popen raises
WaitError == <<"W">>                            \* the OSError process.wait() raises
Abort == <<"A">>                                \* what note_failure raises when it aborts
Statuses == {0, 2}
StdoutBytes == {"x", NL}
StderrBytes == {"e"}

NoCall == [strategy |-> "none", args |-> <<>>, instant_fail |-> "None",
           oserror |-> <<>>, len0 |-> 0, env |-> NoEnvArg, environ0 |-> HostEnviron]
\* open: which of its stdout and stderr the child still holds open for writing.
NoProc == [spawned |-> FALSE, attempts |-> 0, written |-> << <<>>, <<>> >>,
           open |-> <<FALSE, FALSE>>, exited |-> FALSE, returncode |-> 0,
           env |-> HostEnviron]
\* name: the number in the name threading.Thread gave the thread, "Thread-N".
NoThread == [st |-> "none", buf |-> <<>>, data |-> <<>>, first |-> FALSE, joined |-> FALSE,
             sent |-> <<>>, failed |-> FALSE, name |-> 0]
\* timeouts: select() calls that timed out; late: dots written after the done signal.
NoTicker == [st |-> "none", dots |-> 0, joined |-> FALSE, timeouts |-> 0, late |-> 0]
NoChan == [open |-> FALSE, written |-> FALSE, rclosed |-> FALSE, wclosed |-> FALSE]
NoLocal == [invoked |-> FALSE, stdout |-> <<>>, stderr |-> <<>>, has_status |-> FALSE,
            status |-> 0, pending |-> NoExc, instant_fail |-> "None"]
NoResult == [kind |-> "none", status |-> 0, error |-> <<>>]

\* Variant: the message names the program only, args[0].
spawn_error_program_only(args, e) ==
    <<"F", "a", "i", "l", "e", "d", " ", "t", "o", " ", "e", "x", "e", "c", "u", "t", "e", " ">> \o args[1] \o <<" ", "-", " ">> \o e

\* execute: Exception("Failed to execute {0} - {1}".format(" ".join(args), str(e)))
spawn_error(args, e) ==
    <<"F", "a", "i", "l", "e", "d", " ", "t", "o", " ", "e", "x", "e", "c", "u", "t", "e", " ">> \o str_join(<<" ">>, args) \o <<" ", "-", " ">> \o e

\* execute: "!!! Process {0} failed with {1}".format(cmd, status)
failure_banner(args, status) ==
    <<"!", "!", "!", " ", "P", "r", "o", "c", "e", "s", "s", " ">> \o str_join(<<" ">>, args) \o <<" ", "f", "a", "i", "l", "e", "d", " ", "w", "i", "t", "h", " ">> \o IntStr(status)

\* Variant: kwargs.get("instant_fail") passed on as it is.
instant_fail_raw(kw) == kw

\* execute: kwargs.get("instant_fail") or False
instant_fail_of(kw) == IF kw = "True" THEN "True" ELSE "False"

\* execute: the guard of the failure report, status != 0
is_failure(status) == status # 0

\* First step of each strategy.
strategy_entry(strategy) ==
    CASE strategy = "output_on_fail" -> "oof_start"
      [] strategy = "long_running_suppressed_output" -> "lr_start"
      [] strategy = "running_output" -> "ro_start"

\* execute up to and including subprocess.Popen.
ExecuteCall(strategy, args, kw, oserror, env) ==
    /\ MayStart
    /\ oserror = <<>> =>
           \* the threads the strategy will create: one for each stream, and print_dots
           counter + (IF strategy = "long_running_suppressed_output" THEN 3 ELSE 2)
               <= MaxThreadNames
    /\ call' = [strategy |-> strategy, args |-> args, instant_fail |-> kw,
                oserror |-> oserror, len0 |-> Len(stderr), env |-> env,
                environ0 |-> environ]
    /\ container' = <<>>
    /\ IF oserror # <<>>
       THEN /\ proc' = [NoProc EXCEPT !.attempts = 1]
            /\ result' = [kind |-> "raise", status |-> 0,
                          error |-> spawn_error(args, oserror)]
            /\ pc' = "exec_return"
       ELSE /\ proc' = [NoProc EXCEPT !.attempts = 1, !.spawned = TRUE,
                                     !.open = <<TRUE, TRUE>>,
                                     !.env = child_env(environ, env)]
            /\ result' = NoResult
            /\ pc' = strategy_entry(strategy)
    /\ last' = NoLast
    /\ UNCHANGED <<logger_vars, out_vars, scopes, exc, pipe, thread_vars,
                   closed, chan, local,
                   env_vars, conc_vars>>

----------------------------------------------------------------------------
\* The child process.

ChildBytes(i) == IF i = 1 THEN StdoutBytes ELSE StderrBytes

\* The child writes one byte to its stdout (i = 1) or stderr (i = 2).
ChildWrite(i, b) ==
    /\ proc.spawned /\ ~proc.exited
    /\ proc.open[i]
    /\ Len(proc.written[i]) < (IF i = 1 THEN MaxOut ELSE MaxErr)
    /\ Len(pipe[i]) < PipeCap
    /\ proc' = [proc EXCEPT !.written[i] = Append(@, b)]
    /\ pipe' = [pipe EXCEPT ![i] = Append(@, b)]
    /\ UNCHANGED <<logger_vars, out_vars, flow_vars, thread_vars, exec_vars,
                   env_vars, conc_vars>>

\* The child closes its stdout (i = 1) or stderr (i = 2) and goes on running.
ChildClose(i) ==
    /\ proc.spawned /\ ~proc.exited
    /\ proc.open[i]
    /\ proc' = [proc EXCEPT !.open[i] = FALSE]
    /\ UNCHANGED <<logger_vars, out_vars, flow_vars, pipe, thread_vars, exec_vars,
                   env_vars, conc_vars>>

\* The child exits with a status; the ends of the pipes it still holds close.
ChildExit(rc) ==
    /\ proc.spawned /\ ~proc.exited
    /\ proc' = [proc EXCEPT !.exited = TRUE, !.returncode = rc,
                            !.open = <<FALSE, FALSE>>]
    /\ UNCHANGED <<logger_vars, out_vars, flow_vars, pipe, thread_vars, exec_vars,
                   env_vars, conc_vars>>


----------------------------------------------------------------------------
\* Worker threads.

Wrapped == call.strategy \in {"output_on_fail", "long_running_suppressed_output"}

\* Variant: the reader keeps only what it read last.
ReaderReadLast(i) ==
    /\ Wrapped
    /\ thr[i].st = "read"
    /\ pipe[i] # <<>>
    /\ thr' = [thr EXCEPT ![i].buf = pipe[i]]
    /\ pipe' = [pipe EXCEPT ![i] = <<>>]
    /\ UNCHANGED <<logger_vars, out_vars, flow_vars, proc, queue, ticker, exec_vars,
                   env_vars, conc_vars>>

\* Variant: the stderr reader reads only once the stdout reader has met end-of-stream.
ReaderRead_stdout_first(i) ==
    /\ Wrapped
    /\ thr[i].st = "read"
    /\ i = 2 => thr[1].st \in {"exiting", "done"}
    /\ pipe[i] # <<>>
    /\ thr' = [thr EXCEPT ![i].buf = @ \o pipe[i]]
    /\ pipe' = [pipe EXCEPT ![i] = <<>>]
    /\ UNCHANGED <<logger_vars, out_vars, flow_vars, proc, queue, ticker, exec_vars,
                   env_vars, conc_vars>>

\* output_on_fail.reader: handle.read() takes what the pipe holds and goes on reading.
ReaderRead(i) ==
    /\ Wrapped
    /\ thr[i].st = "read"
    /\ pipe[i] # <<>>
    /\ thr' = [thr EXCEPT ![i].buf = @ \o pipe[i]]
    /\ pipe' = [pipe EXCEPT ![i] = <<>>]
    /\ UNCHANGED <<logger_vars, out_vars, flow_vars, proc, queue, ticker, exec_vars,
                   env_vars, conc_vars>>

\* The pipe of stream i is empty and its write end is closed: a read returns no data.
EndOfStream(i) == pipe[i] = <<>> /\ ~proc.open[i]

\* output_on_fail.reader: handle.read() meets end-of-stream; input_queue.put(...)
ReaderPut(i) ==
    /\ Wrapped
    /\ thr[i].st = "read"
    /\ EndOfStream(i)
    /\ queue' = [queue EXCEPT ![i] = Append(@, thr[i].buf)]
    /\ thr' = [thr EXCEPT ![i].st = "exiting"]
    /\ UNCHANGED <<logger_vars, out_vars, flow_vars, child_vars, ticker, exec_vars,
                   env_vars, conc_vars>>

\* The reader's function has returned: the thread terminates.
ReaderExit(i) ==
    /\ thr[i].st = "exiting"
    /\ thr' = [thr EXCEPT ![i].st = "done"]
    /\ UNCHANGED <<logger_vars, out_vars, flow_vars, child_vars, queue, ticker, exec_vars,
                   env_vars, conc_vars>>

\* output_printer: does this byte make the printer log a newline first.
needs_leading_newline(read_first_byte, data) == ~read_first_byte /\ data # <<NL>>

\* running_output.output_printer: data = file_handle.read(1), with data
PrinterRead(i) ==
    /\ call.strategy = "running_output"
    /\ thr[i].st = "read"
    /\ pipe[i] # <<>>
    /\ LET data == <<Head(pipe[i])>> IN
        thr' = [thr EXCEPT ![i].data = data,
                           ![i].st = IF needs_leading_newline(thr[i].first, data)
                                     THEN "blank" ELSE "forward"]
    /\ pipe' = [pipe EXCEPT ![i] = Tail(@)]
    /\ UNCHANGED <<logger_vars, out_vars, flow_vars, proc, queue, ticker, exec_vars,
                   env_vars, conc_vars>>

\* running_output.output_printer: logger.message("\n") before the first byte, up to
\* the flag.
PrinterBlank(i) ==
    /\ thr[i].st = "blank"
    /\ message_begin
    /\ thr' = [thr EXCEPT ![i].st = "blank_write"]
    /\ UNCHANGED <<pc, exc, last, child_vars, queue, ticker, exec_vars,
                   env_vars, conc_vars>>

\* running_output.output_printer: logger.message("\n"), the write.
PrinterBlankWrite(i) ==
    /\ thr[i].st = "blank_write"
    /\ message_write(<<NL>>)
    /\ thr' = [thr EXCEPT ![i].st = "forward"]
    /\ UNCHANGED <<pc, exc, last, child_vars, queue, ticker, exec_vars,
                   env_vars, conc_vars>>

\* running_output.output_printer: read_first_byte = True; logger.message(data), up
\* to the flag.
PrinterForward(i) ==
    /\ thr[i].st = "forward"
    /\ message_begin
    /\ thr' = [thr EXCEPT ![i].st = "forward_write", ![i].first = TRUE]
    /\ UNCHANGED <<pc, exc, last, child_vars, queue, ticker, exec_vars,
                   env_vars, conc_vars>>

\* running_output.output_printer: logger.message(data), the write.
PrinterForwardWrite(i) ==
    /\ thr[i].st = "forward_write"
    /\ message_write(thr[i].data)
    /\ thr' = [thr EXCEPT ![i].st = "read", ![i].sent = @ \o thr[i].data]
    /\ UNCHANGED <<pc, exc, last, child_vars, queue, ticker, exec_vars,
                   env_vars, conc_vars>>

\* running_output.output_printer: read(1) returns no data; the thread terminates.
PrinterEOF(i) ==
    /\ call.strategy = "running_output"
    /\ thr[i].st = "read"
    /\ EndOfStream(i)
    /\ thr' = [thr EXCEPT ![i].st = "done"]
    /\ UNCHANGED <<logger_vars, out_vars, flow_vars, child_vars, queue, ticker, exec_vars,
                   env_vars, conc_vars>>

\* The frame of output_on_fail.reader in a traceback, at the read that raised. The
\* directory of the file, which is where the interpreter loaded it from, is left out.
reader_frame ==
    <<" ", " ", "F", "i", "l", "e", " ", "\"", ".", ".", ".", "/", "u", "t", "i", "l",
      ".", "p", "y", "\"", ",", " ", "l", "i", "n", "e", " ", "2", "2", "0", ",", " ",
      "i", "n", " ", "r", "e", "a", "d", "e", "r", NL, " ", " ", " ", " ", "i", "n", "p",
      "u", "t", "_", "q", "u", "e", "u", "e", ".", "p", "u", "t", "(", "h", "a", "n",
      "d", "l", "e", ".", "r", "e", "a", "d", "(", ")", ")", NL>>

\* The frame of running_output.output_printer, at the read that raised.
output_printer_frame ==
    <<" ", " ", "F", "i", "l", "e", " ", "\"", ".", ".", ".", "/", "u", "t", "i", "l",
      ".", "p", "y", "\"", ",", " ", "l", "i", "n", "e", " ", "2", "8", "2", ",", " ",
      "i", "n", " ", "o", "u", "t", "p", "u", "t", "_", "p", "r", "i", "n", "t", "e",
      "r", NL, " ", " ", " ", " ", "d", "a", "t", "a", " ", "=", " ", "f", "i", "l", "e",
      "_", "h", "a", "n", "d", "l", "e", ".", "r", "e", "a", "d", "(", "1", ")", NL>>

\* traceback.format_exc() in a thread whose function raised at the read of frame: the
\* frames of threading.py (lines as in Python 2.7, directory left out), the frame of
\* the function, and the exception the read raised.
format_exc(frame) ==
    <<"T", "r", "a", "c", "e", "b", "a", "c", "k", " ", "(", "m", "o", "s", "t", " ",
      "r", "e", "c", "e", "n", "t", " ", "c", "a", "l", "l", " ", "l", "a", "s", "t",
      ")", ":", NL>>
    \o
    <<" ", " ", "F", "i", "l", "e", " ", "\"", ".", ".", ".", "/", "t", "h", "r", "e",
      "a", "d", "i", "n", "g", ".", "p", "y", "\"", ",", " ", "l", "i", "n", "e", " ",
      "8", "0", "1", ",", " ", "i", "n", " ", "_", "_", "b", "o", "o", "t", "s", "t",
      "r", "a", "p", "_", "i", "n", "n", "e", "r", NL, " ", " ", " ", " ", "s", "e", "l",
      "f", ".", "r", "u", "n", "(", ")", NL, " ", " ", "F", "i", "l", "e", " ", "\"",
      ".", ".", ".", "/", "t", "h", "r", "e", "a", "d", "i", "n", "g", ".", "p", "y",
      "\"", ",", " ", "l", "i", "n", "e", " ", "7", "5", "4", ",", " ", "i", "n", " ",
      "r", "u", "n", NL, " ", " ", " ", " ", "s", "e", "l", "f", ".", "_", "_", "t", "a",
      "r", "g", "e", "t", "(", "*", "s", "e", "l", "f", ".", "_", "_", "a", "r", "g",
      "s", ",", " ", "*", "*", "s", "e", "l", "f", ".", "_", "_", "k", "w", "a", "r",
      "g", "s", ")", NL>>
    \o frame
    \o
    <<"I", "O", "E", "r", "r", "o", "r", ":", " ", "R", NL>>

\* threading.Thread, when the thread's function raises:
\*   print>>sys.stderr, "Exception in thread %s:\n%s" % (self.name, format_exc())
\* The report of the exception that ended thread i, the first of the two writes.
ExceptionReport(i) ==
    <<"E", "x", "c", "e", "p", "t", "i", "o", "n", " ", "i", "n", " ", "t", "h", "r",
      "e", "a", "d", " ", "T", "h", "r", "e", "a", "d", "-">> \o IntStr(thr[i].name) \o <<":", NL>>
    \o format_exc(IF Wrapped THEN reader_frame ELSE output_printer_frame)

\* handle.read() in reader, or file_handle.read(1) in output_printer, raises: the
\* exception leaves the thread's function, which returns nothing to anyone, and
\* threading.Thread writes its report to sys.stderr.
ReadFails(i) ==
    /\ thr[i].st = "read"
    /\ \A j \in 1..2 : ~thr[j].failed
    /\ thr' = [thr EXCEPT ![i].st = "raised", ![i].failed = TRUE]
    /\ stderr' = Append(stderr, ExceptionReport(i))
    /\ UNCHANGED <<logger_vars, stdout, flow_vars, child_vars, queue, ticker, exec_vars,
                   env_vars, conc_vars>>

\* The report ends with a newline, a write of its own; the thread terminates.
ReadFailsEnd(i) ==
    /\ thr[i].st = "raised"
    /\ thr' = [thr EXCEPT ![i].st = "done"]
    /\ stderr' = Append(stderr, <<NL>>)
    /\ UNCHANGED <<logger_vars, stdout, flow_vars, child_vars, queue, ticker, exec_vars,
                   env_vars, conc_vars>>

\* print_dots: select() times out with nothing written to the pipe.
TickerTimeout ==
    /\ ticker.st = "select"
    /\ ~chan.written
    /\ ticker.dots < MaxDots
    /\ ticker' = [ticker EXCEPT !.st = "dot", !.timeouts = @ + 1]
    /\ UNCHANGED <<logger_vars, out_vars, flow_vars, child_vars, thr, queue, exec_vars,
                   env_vars, conc_vars>>

\* print_dots: logger.dot()
TickerDot ==
    /\ ticker.st = "dot"
    /\ dot
    /\ ticker' = [ticker EXCEPT !.st = "select", !.dots = @ + 1,
                                 !.late = IF chan.written THEN @ + 1 ELSE @]
    /\ UNCHANGED <<pc, exc, last, child_vars, thr, queue, exec_vars,
                   env_vars, conc_vars>>

\* Variant: the thread logs a last dot when it finds the pipe readable.
TickerWake_with_dot ==
    /\ ticker.st = "select"
    /\ chan.written
    /\ ticker' = [ticker EXCEPT !.st = "dot"]
    /\ UNCHANGED <<logger_vars, out_vars, flow_vars, child_vars, thr, queue, exec_vars,
                   env_vars, conc_vars>>

\* print_dots: select() reports the pipe readable; the thread returns.
TickerWake ==
    /\ ticker.st = "select"
    /\ chan.written
    /\ ticker' = [ticker EXCEPT !.st = "done"]
    /\ UNCHANGED <<logger_vars, out_vars, flow_vars, child_vars, thr, queue, exec_vars,
                   env_vars, conc_vars>>


----------------------------------------------------------------------------
\* The output strategies, on the main flow.

\* threading.Thread(target=...): a thread created without a name takes the next number.
Started(name) == [NoThread EXCEPT !.st = "read", !.name = name]

\* Where output_on_fail hands over when it returns or raises.
after_output_on_fail(raised) ==
    IF call.strategy = "long_running_suppressed_output" THEN "lr_done"
    ELSE IF raised THEN "exec_close" ELSE "exec_check"

\* output_on_fail: the outer thread_output block is entered, the stdout reader
\* started.
oof_start ==
    /\ pc = "oof_start"
    /\ counter' = counter + 1
    /\ thr' = [thr EXCEPT ![1] = Started(counter + 1)]
    /\ local' = [local EXCEPT !.invoked = TRUE]
    /\ pc' = "oof_start2"
    /\ UNCHANGED <<logger_vars, out_vars, scopes, exc, last, child_vars, queue, ticker,
                   call, closed, chan, container, result,
                   env_vars, flow>>

\* output_on_fail: the inner thread_output block is entered, the stderr reader
\* started.
oof_start_stderr ==
    /\ pc = "oof_start2"
    /\ counter' = counter + 1
    /\ thr' = [thr EXCEPT ![2] = Started(counter + 1)]
    /\ pc' = "oof_get1"
    /\ UNCHANGED <<logger_vars, out_vars, scopes, exc, last, child_vars, queue, ticker,
                   exec_vars, env_vars, flow>>

\* output_on_fail: stdout = stdout_queue.get()
oof_get_stdout ==
    /\ pc = "oof_get1"
    /\ queue[1] # <<>>
    /\ local' = [local EXCEPT !.stdout = Head(queue[1])]
    /\ queue' = [queue EXCEPT ![1] = Tail(@)]
    /\ pc' = "oof_get2"
    /\ UNCHANGED <<logger_vars, out_vars, scopes, exc, last, child_vars, thr, ticker,
                   call, closed, chan, container, result,
                   env_vars, conc_vars>>

\* output_on_fail: stderr = stderr_queue.get()
oof_get_stderr ==
    /\ pc = "oof_get2"
    /\ queue[2] # <<>>
    /\ local' = [local EXCEPT !.stderr = Head(queue[2])]
    /\ queue' = [queue EXCEPT ![2] = Tail(@)]
    /\ pc' = "oof_join2"
    /\ UNCHANGED <<logger_vars, out_vars, scopes, exc, last, child_vars, thr, ticker,
                   call, closed, chan, container, result,
                   env_vars, conc_vars>>

\* Variant of thread_output that yields the queue and never joins the thread.
thread_output_no_join(i, next) ==
    /\ pc' = next
    /\ UNCHANGED <<logger_vars, out_vars, scopes, exc, last, child_vars, thread_vars,
                   exec_vars,
                   env_vars, conc_vars>>

\* thread_output: thread.join() after the yield, for the reader of stream i.
thread_output_join(i, next) ==
    /\ thr[i].st = "done"
    /\ thr' = [thr EXCEPT ![i].joined = TRUE]
    /\ pc' = next
    /\ UNCHANGED <<logger_vars, out_vars, scopes, exc, last, child_vars, queue, ticker,
                   exec_vars,
                   env_vars, conc_vars>>

\* output_on_fail: the inner with-block ends (stderr reader joined).
oof_join_stderr == pc = "oof_join2" /\ thread_output_join(2, "oof_join1")

\* output_on_fail: the outer with-block ends (stdout reader joined).
oof_join_stdout == pc = "oof_join1" /\ thread_output_join(1, "oof_wait")

\* output_on_fail: is the captured output shown, status != 0
shows_output(status) == status # 0

\* process.wait() returns the exit status once the child has exited.
wait_returns(next_failed, next_ok) ==
    /\ proc.exited
    /\ local' = [local EXCEPT !.has_status = TRUE, !.status = proc.returncode]
    /\ pc' = IF shows_output(proc.returncode) THEN next_failed ELSE next_ok

\* process.wait() raises OSError.
wait_raises(next) ==
    /\ local' = [local EXCEPT !.pending = WaitError]
    /\ pc' = next

\* output_on_fail: status = process.wait()
oof_wait ==
    /\ pc = "oof_wait"
    /\ \/ wait_returns("oof_msg0", after_output_on_fail(FALSE))
       \/ wait_raises(after_output_on_fail(TRUE))
    /\ UNCHANGED <<logger_vars, out_vars, scopes, exc, last, child_vars, thread_vars,
                   call, closed, chan, container, result,
                   env_vars, conc_vars>>

\* A logger.message(...) call of output_on_fail up to the flag; the ticker of the
\* heartbeat strategy may write its dot before the text follows.
oof_message_begin(at, next) ==
    /\ pc = at
    /\ message_begin
    /\ pc' = next
    /\ UNCHANGED <<exc, last, child_vars, thread_vars, exec_vars, env_vars, conc_vars>>

\* output_on_fail: logger.message("\n"), up to the flag
oof_message_newline_begin == oof_message_begin("oof_msg0", "oof_msg0_write")

\* output_on_fail: logger.message(stdout), up to the flag
oof_message_stdout_begin == oof_message_begin("oof_msg1", "oof_msg1_write")

\* output_on_fail: logger.message(stderr), up to the flag
oof_message_stderr_begin == oof_message_begin("oof_msg2", "oof_msg2_write")

\* output_on_fail: logger.message("\n"), the write
oof_message_newline ==
    /\ pc = "oof_msg0_write"
    /\ message_write(<<NL>>)
    /\ pc' = "oof_msg1"
    /\ UNCHANGED <<exc, last, child_vars, thread_vars, exec_vars,
                   env_vars, conc_vars>>

\* Variant: what was captured from stderr is logged in the place of stdout.
oof_message_stdout_swapped ==
    /\ pc = "oof_msg1_write"
    /\ message_write(local.stderr)
    /\ pc' = "oof_msg2"
    /\ UNCHANGED <<exc, last, child_vars, thread_vars, exec_vars, env_vars, conc_vars>>

\* output_on_fail: logger.message(stdout), the write
oof_message_stdout ==
    /\ pc = "oof_msg1_write"
    /\ message_write(local.stdout)
    /\ pc' = "oof_msg2"
    /\ UNCHANGED <<exc, last, child_vars, thread_vars, exec_vars,
                   env_vars, conc_vars>>

\* output_on_fail: logger.message(stderr), the write; return status
oof_message_stderr ==
    /\ pc = "oof_msg2_write"
    /\ message_write(local.stderr)
    /\ pc' = after_output_on_fail(FALSE)
    /\ UNCHANGED <<exc, last, child_vars, thread_vars, exec_vars,
                   env_vars, conc_vars>>

\* long_running_suppressed_output.strategy: os.pipe(), dots_thread.start(),
\* then the call of output_on_fail.
lr_start ==
    /\ pc = "lr_start"
    /\ chan' = [NoChan EXCEPT !.open = TRUE]
    /\ ticker' = [NoTicker EXCEPT !.st = "select"]
    /\ counter' = counter + 1
    /\ local' = [local EXCEPT !.invoked = TRUE]
    /\ pc' = "oof_start"
    /\ UNCHANGED <<logger_vars, out_vars, scopes, exc, last, child_vars, thr, queue,
                   call, closed, container, result,
                   env_vars, flow>>

\* Variant: the channel is closed as soon as the signal is written, before the join.
lr_write_done_and_close ==
    /\ pc = "lr_done"
    /\ chan' = [chan EXCEPT !.written = TRUE, !.rclosed = TRUE, !.wclosed = TRUE]
    /\ pc' = "lr_join"
    /\ UNCHANGED <<logger_vars, out_vars, scopes, exc, last, child_vars, thread_vars,
                   call, closed, local, container, result, env_vars, conc_vars>>

\* strategy, finally: os.write(write, "done")
lr_write_done ==
    /\ pc = "lr_done"
    /\ chan' = [chan EXCEPT !.written = TRUE]
    /\ pc' = "lr_join"
    /\ UNCHANGED <<logger_vars, out_vars, scopes, exc, last, child_vars, thread_vars,
                   call, closed, local, container, result,
                   env_vars, conc_vars>>

\* Variant: the strategy goes on without waiting for the ticker to end.
lr_join_no_wait ==
    /\ pc = "lr_join"
    /\ ticker' = [ticker EXCEPT !.joined = TRUE]
    /\ pc' = "lr_close"
    /\ UNCHANGED <<logger_vars, out_vars, scopes, exc, last, child_vars, thr, queue,
                   exec_vars,
                   env_vars, conc_vars>>

\* strategy, finally: dots_thread.join()
lr_join ==
    /\ pc = "lr_join"
    /\ ticker.st = "done"
    /\ ticker' = [ticker EXCEPT !.joined = TRUE]
    /\ pc' = "lr_close"
    /\ UNCHANGED <<logger_vars, out_vars, scopes, exc, last, child_vars, thr, queue,
                   exec_vars,
                   env_vars, conc_vars>>

\* strategy, finally: os.close(read); os.close(write); then return status or re-raise.
lr_close ==
    /\ pc = "lr_close"
    /\ chan' = [chan EXCEPT !.rclosed = TRUE, !.wclosed = TRUE]
    /\ pc' = IF local.pending # NoExc THEN "exec_close" ELSE "exec_check"
    /\ UNCHANGED <<logger_vars, out_vars, scopes, exc, last, child_vars, thread_vars,
                   call, closed, local, container, result,
                   env_vars, conc_vars>>

\* running_output: stdout.start()
ro_start ==
    /\ pc = "ro_start"
    /\ counter' = counter + 2
    /\ thr' = <<Started(counter + 1), [NoThread EXCEPT !.name = counter + 2]>>
    /\ local' = [local EXCEPT !.invoked = TRUE]
    /\ pc' = "ro_start2"
    /\ UNCHANGED <<logger_vars, out_vars, scopes, exc, last, child_vars, queue, ticker,
                   call, closed, chan, container, result,
                   env_vars, flow>>

\* running_output: stderr.start()
ro_start_stderr ==
    /\ pc = "ro_start2"
    /\ thr' = [thr EXCEPT ![2] = Started(thr[2].name)]
    /\ pc' = "ro_wait"
    /\ UNCHANGED <<logger_vars, out_vars, scopes, exc, last, child_vars, queue, ticker,
                   exec_vars, env_vars, conc_vars>>

\* running_output: status = process.wait()
ro_wait ==
    /\ pc = "ro_wait"
    /\ \/ wait_returns("ro_join1", "ro_join1")
       \/ wait_raises("ro_join1")
    /\ UNCHANGED <<logger_vars, out_vars, scopes, exc, last, child_vars, thread_vars,
                   call, closed, chan, container, result,
                   env_vars, conc_vars>>

\* Variant: the join returns at once, whether or not the printer has ended.
printer_join_no_wait(i, next) ==
    /\ thr' = [thr EXCEPT ![i].joined = TRUE]
    /\ pc' = next
    /\ UNCHANGED <<logger_vars, out_vars, scopes, exc, last, child_vars, queue, ticker,
                   exec_vars, env_vars, conc_vars>>

\* Thread.join() in running_output's finally, for the printer of stream i.
printer_join(i, next) ==
    /\ thr[i].st = "done"
    /\ thr' = [thr EXCEPT ![i].joined = TRUE]
    /\ pc' = next
    /\ UNCHANGED <<logger_vars, out_vars, scopes, exc, last, child_vars, queue, ticker,
                   exec_vars,
                   env_vars, conc_vars>>

\* running_output, finally: stdout.join()
ro_join_stdout == pc = "ro_join1" /\ printer_join(1, "ro_join2")

\* running_output, finally: stderr.join(); then return status or re-raise.
ro_join_stderr ==
    /\ pc = "ro_join2"
    /\ printer_join(2, IF local.pending # NoExc THEN "exec_close" ELSE "exec_check")

----------------------------------------------------------------------------
\* execute, after the strategy.

\* execute: instant_fail = ...; if status != 0: logger.message("!!! Process ...")
exec_check ==
    /\ pc = "exec_check"
    /\ local' = [local EXCEPT !.instant_fail = instant_fail_of(call.instant_fail)]
    /\ IF is_failure(local.status)
       THEN /\ message(failure_banner(call.args, local.status))
            /\ pc' = "exec_note"
       ELSE /\ pc' = "exec_close"
            /\ UNCHANGED <<logger_vars, out_vars, scopes>>
    /\ UNCHANGED <<exc, last, child_vars, thread_vars, call, closed, chan, container,
                   result,
                   env_vars, conc_vars>>

\* execute: container.note_failure(instant_fail), which returns or aborts the run.
exec_note_failure ==
    /\ pc = "exec_note"
    /\ container' = Append(container, [arg |-> local.instant_fail, at |-> Len(stderr)])
    /\ \E aborts \in BOOLEAN :
           local' = [local EXCEPT !.pending = IF aborts THEN Abort ELSE NoExc]
    /\ pc' = "exec_close"
    /\ UNCHANGED <<logger_vars, out_vars, scopes, exc, last, child_vars, thread_vars,
                   call, closed, chan, result,
                   env_vars, conc_vars>>

\* Variant of close_file_pair without the try/finally: the pair is closed only
\* when the with-block ends normally.
close_file_pair_no_finally ==
    closed' = IF local.pending # NoExc THEN closed ELSE <<TRUE, TRUE>>

\* close_file_pair, finally: pair[0].close(); pair[1].close()
close_file_pair == closed' = <<TRUE, TRUE>>

\* Variant: a nonzero status is turned into an exception, as check_call does.
execute_result_checked(pending, status) ==
    IF pending # NoExc \/ status # 0
    THEN [kind |-> "raise", status |-> 0, error |-> pending]
    ELSE [kind |-> "return", status |-> status, error |-> <<>>]

\* execute: return status, unless an exception is on its way out.
execute_result(pending, status) ==
    IF pending # NoExc
    THEN [kind |-> "raise", status |-> 0, error |-> pending]
    ELSE [kind |-> "return", status |-> status, error |-> <<>>]

\* execute: the with-block ends; return status, or the exception goes on.
exec_close ==
    /\ pc = "exec_close"
    /\ close_file_pair
    /\ result' = execute_result(local.pending, local.status)
    /\ pc' = "exec_return"
    /\ UNCHANGED <<logger_vars, out_vars, scopes, exc, last, child_vars, thread_vars,
                   call, chan, local, container,
                   env_vars, conc_vars>>

\* Control is back in the caller of execute.
ExecuteReturn ==
    /\ pc = "exec_return"
    /\ exc' = IF result.kind = "raise" THEN result.error ELSE NoExc
    /\ pc' = "idle"
    /\ last' = Did("execute", NoScope, <<>>)
    /\ call' = NoCall
    /\ proc' = NoProc
    /\ pipe' = << <<>>, <<>> >>
    /\ closed' = <<FALSE, FALSE>>
    /\ thr' = <<NoThread, NoThread>>
    /\ queue' = << <<>>, <<>> >>
    /\ ticker' = NoTicker
    /\ chan' = NoChan
    /\ local' = NoLocal
    /\ container' = <<>>
    /\ result' = NoResult
    /\ UNCHANGED <<logger_vars, out_vars, scopes,
                   env_vars, conc_vars>>

----------------------------------------------------------------------------
\* The environment helpers: os.environ and the parent collaborator.

MaxCalls == 3       \* most calls the parent collaborator receives in one run

\* Python values handed to the helpers: None, a str, an int.
PyNone == [t |-> "none", s |-> <<>>, n |-> 0]
PyStr(text) == [t |-> "str", s |-> text, n |-> 0]
PyInt(i) == [t |-> "int", s |-> <<>>, n |-> i]

\* Values given to overwrite_environment_variable.
Values == {PyNone, PyStr(<<>>), PyStr(<<"a">>), PyStr(<<"a", ":", "b", ":", "a">>), PyInt(7)}

\* Values given as list entries to prepend_ and remove_from_environment_variable:
\* what a colon-separated list holds as one entry, not empty and without a colon.
EntryValues == {PyStr(<<"a">>), PyStr(<<"b">>), PyInt(7)}

KeyError == <<"K", "e", "y", "E", "r", "r", "o", "r">>

NoEnvLast == [op |-> "none", key |-> "K", value |-> PyNone,
              environ0 |-> HostEnviron, nparent0 |-> 0, raised |-> NoExc]

\* What is remembered of an environment operation: its arguments, the state before
\* it and the exception it raised, if any.
EnvDid(op, key, value, raised) ==
    [op |-> op, key |-> key, value |-> value,
     environ0 |-> environ, nparent0 |-> Len(parent), raised |-> raised]

\* Python's  str(value).
py_str(value) ==
    CASE value.t = "str" -> value.s
      [] value.t = "int" -> IntStr(value.n)
      [] value.t = "none" -> <<"N", "o", "n", "e">>

\* Python's  i != value  for a str i.
py_ne(i, value) == IF value.t = "str" THEN i # value.s ELSE TRUE

RECURSIVE str_split(_)
\* Python's  s.split(":"): the texts between the colons, so "" gives [""].
str_split(s) ==
    LET colons == {i \in 1..Len(s) : s[i] = ":"} IN
    IF colons = {} THEN <<s>>
    ELSE LET i == CHOOSE c \in colons : \A d \in colons : c <= d IN
         <<SubSeq(s, 1, i - 1)>> \o str_split(SubSeq(s, i + 1, Len(s)))

\* os.environ.get(key) or ""
environ_get_or_empty(key) == IF environ[key].set THEN environ[key].val ELSE <<>>

\* maybe_environ(key): os.environ[key], or "" on KeyError.
maybe_environ(key) == IF environ[key].set THEN environ[key].val ELSE <<>>

\* The parent collaborator is called with two arguments: (key, value), or
\* (name, command) for define_command.
parent_call(op, key, value) ==
    parent' = Append(parent, [op |-> op, key |-> key, value |-> value])

\* Variant: the variable is always assigned, str(None) included.
overwritten_always_set(key, value) == EnvStr(py_str(value))

\* overwrite_environment_variable: what os.environ[key] becomes.
overwritten(key, value) ==
    IF value # PyNone THEN EnvStr(py_str(value)) ELSE Unset

\* overwrite_environment_variable(parent, key, value);  del os.environ[key]  raises
\* KeyError for a key that is not set, before the parent is called.
overwrite_environment_variable(key, value) ==
    /\ Len(parent) < MaxCalls
    /\ IF value = PyNone /\ ~environ[key].set
       THEN /\ envlast' = EnvDid("overwrite", key, value, KeyError)
            /\ UNCHANGED <<environ, parent>>
       ELSE /\ environ' = [environ EXCEPT ![key] = overwritten(key, value)]
            /\ parent_call("overwrite", key, value)
            /\ envlast' = EnvDid("overwrite", key, value, NoExc)
    /\ UNCHANGED <<logger_vars, out_vars, flow_vars, child_vars, thread_vars, exec_vars,
                   conc_vars>>

\* Variant: the value is put at the end of the list.
prepended_at_end(old, value) == old \o <<":">> \o py_str(value)

\* prepend_environment_variable: "{0}:{1}".format(str(value), old)
prepended(old, value) == py_str(value) \o <<":">> \o old

\* prepend_environment_variable(parent, key, value)
prepend_environment_variable(key, value) ==
    /\ Len(parent) < MaxCalls
    /\ environ' = [environ EXCEPT
                     ![key] = EnvStr(prepended(environ_get_or_empty(key), value))]
    /\ parent_call("prepend", key, value)
    /\ envlast' = EnvDid("prepend", key, value, NoExc)
    /\ UNCHANGED <<logger_vars, out_vars, flow_vars, child_vars, thread_vars, exec_vars,
                   conc_vars>>

RECURSIVE without_first(_, _)
\* Variant: only the first entry equal to value is dropped, as list.remove does.
without_first(environ_list, value) ==
    IF environ_list = <<>> THEN <<>>
    ELSE IF ~py_ne(Head(environ_list), value) THEN Tail(environ_list)
    ELSE <<Head(environ_list)>> \o without_first(Tail(environ_list), value)

\* remove_from_environment_variable: [i for i in environ_list if i != value]
without(environ_list, value) == SelectSeq(environ_list, LAMBDA i : py_ne(i, value))

\* remove_from_environment_variable(parent, key, value)
remove_from_environment_variable(key, value) ==
    /\ Len(parent) < MaxCalls
    /\ LET environ_list == str_split(maybe_environ(key)) IN
        environ' = [environ EXCEPT
                      ![key] = EnvStr(str_join(<<":">>, without(environ_list, value)))]
    /\ parent_call("remove", key, value)
    /\ envlast' = EnvDid("remove", key, value, NoExc)
    /\ UNCHANGED <<logger_vars, out_vars, flow_vars, child_vars, thread_vars, exec_vars,
                   conc_vars>>

\* Names and commands given to define_command.
CommandNames == {"n"}
CommandTexts == {PyStr(<<"c">>)}

\* define_command(parent, name, command): the call is handed to the parent and
\* os.environ is left alone.
define_command(name, command) ==
    /\ Len(parent) < MaxCalls
    /\ parent_call("define_command", name, command)
    /\ envlast' = EnvDid("define_command", name, command, NoExc)
    /\ UNCHANGED <<logger_vars, out_vars, flow_vars, child_vars, thread_vars, exec_vars,
                   environ, conc_vars>>

----------------------------------------------------------------------------
\* Task scopes run by client threads. The class attributes are shared by every
\* thread of the process, and  x += 1  on a class attribute is a load, an add and a
\* store, between which the interpreter may switch threads.

MaxThreadOps == 3

Threads == 1..2

\* reg is the value a thread has loaded and not yet stored back (0 when none). text,
\* after, own and ind belong to the message() call in progress: its argument, where
\* the thread goes on after it, the number of scopes the thread was inside when it
\* made the call and the indent level it read. logged, lind and lown describe the
\* message the thread wrote last.
NoFlow == [pc |-> "unstarted", depth |-> 0, reg |-> 0, ops |-> 0,
           text |-> <<>>, after |-> "body", own |-> 0, ind |-> 0,
           logged |-> FALSE, lind |-> 0, lown |-> 0]

\* Logging calls made by the client threads so far.
ThreadOps == flow[1].ops + flow[2].ops

\* The thread goes on to its next instruction.
Goto(t, to) == flow' = [flow EXCEPT ![t].pc = to]

\* threading.Thread(target=...).start() for a target that runs Task scopes.
ThreadStart(t) ==
    /\ flow[t].pc = "unstarted"
    /\ pc = "idle" /\ scopes = <<>> /\ stderr = <<>> /\ last = NoLast
    /\ counter < MaxThreadNames
    /\ counter' = counter + 1
    /\ Goto(t, "body")
    /\ UNCHANGED <<logger_vars, out_vars, flow_vars, child_vars, thread_vars, exec_vars,
                   env_vars>>

\* Task.__init__(description) in thread t: the indicator, by the value Task.nest_level
\* has when the thread reads it, and the call of message() with the header.
ThreadTaskInit(t, description) ==
    /\ flow[t].pc = "body"
    /\ flow[t].depth < MaxDepth
    /\ ThreadOps < MaxThreadOps
    /\ flow' = [flow EXCEPT ![t].pc = "msg_test", ![t].ops = @ + 1,
                            ![t].text = task_header(nest_level, description),
                            ![t].after = "enter_nest_load",
                            ![t].own = flow[t].depth]
    /\ UNCHANGED <<logger_vars, out_vars, flow_vars, child_vars, thread_vars, exec_vars,
                   env_vars, counter>>

\* Where message() goes on after line 164: if IndentedLogger._indent_level > 0
message_test == IF indent_level > 0 THEN "msg_flag" ELSE "msg_indent"

\* IndentedLogger().message(text) called in the body of thread t's with-block, up to
\* the test of line 164, the first line of the call that reads a class attribute.
ThreadMessage(t, text) ==
    /\ flow[t].pc = "body"
    /\ flow[t].depth > 0
    /\ ThreadOps < MaxThreadOps
    /\ flow' = [flow EXCEPT ![t].pc = message_test, ![t].ops = @ + 1,
                            ![t].text = text, ![t].own = flow[t].depth]
    /\ UNCHANGED <<logger_vars, out_vars, flow_vars, child_vars, thread_vars, exec_vars,
                   env_vars, counter>>

\* message() called by Task.__init__, line 164: if IndentedLogger._indent_level > 0
ThreadMessageTest(t) ==
    /\ flow[t].pc = "msg_test"
    /\ Goto(t, message_test)
    /\ UNCHANGED <<logger_vars, out_vars, flow_vars, child_vars, thread_vars, exec_vars,
                   env_vars, counter>>

\* message(), line 165: IndentedLogger._printed_on_secondary_indents = True
ThreadMessageFlag(t) ==
    /\ flow[t].pc = "msg_flag"
    /\ printed_on_secondary_indents' = TRUE
    /\ Goto(t, "msg_indent")
    /\ UNCHANGED <<indent_level, nest_level, out_vars, flow_vars, child_vars, thread_vars,
                   exec_vars, env_vars, counter>>

\* message(), line 167: indent = IndentedLogger._indent_level * "    "
ThreadMessageIndent(t) ==
    /\ flow[t].pc = "msg_indent"
    /\ flow' = [flow EXCEPT ![t].pc = "msg_write", ![t].ind = indent_level]
    /\ UNCHANGED <<logger_vars, out_vars, flow_vars, child_vars, thread_vars, exec_vars,
                   env_vars, counter>>

\* message(), lines 168-170: the text is formatted with the indent read and written.
ThreadMessageWrite(t) ==
    /\ flow[t].pc = "msg_write"
    /\ print_message(formatted(flow[t].text, flow[t].ind))
    /\ flow' = [flow EXCEPT ![t].pc = flow[t].after, ![t].text = <<>>,
                            ![t].after = "body", ![t].ind = 0, ![t].own = 0,
                            ![t].logged = TRUE,
                            ![t].lind = flow[t].ind, ![t].lown = flow[t].own]
    /\ UNCHANGED <<logger_vars, flow_vars, child_vars, thread_vars, exec_vars, env_vars, counter>>

\* The load of a class attribute's value, for  += 1  or  -= 1.
ThreadLoad(t, at, value, to) ==
    /\ flow[t].pc = at
    /\ flow' = [flow EXCEPT ![t].pc = to, ![t].reg = value]
    /\ UNCHANGED <<logger_vars, out_vars, flow_vars, child_vars, thread_vars, exec_vars,
                   env_vars, counter>>

\* Task.__enter__: Task.nest_level += 1, the load.
ThreadEnterNestLoad(t) == ThreadLoad(t, "enter_nest_load", nest_level, "enter_nest_store")

\* Task.__enter__: Task.nest_level += 1, the store.
ThreadEnterNestStore(t) ==
    /\ flow[t].pc = "enter_nest_store"
    /\ nest_level' = flow[t].reg + 1
    /\ flow' = [flow EXCEPT ![t].pc = "enter_indent_load", ![t].reg = 0]
    /\ UNCHANGED <<indent_level, printed_on_secondary_indents, out_vars, flow_vars,
                   child_vars, thread_vars, exec_vars, env_vars, counter>>

\* IndentedLogger.__enter__: _indent_level += 1, the load.
ThreadEnterIndentLoad(t) ==
    ThreadLoad(t, "enter_indent_load", indent_level, "enter_indent_store")

\* IndentedLogger.__enter__: _indent_level += 1, the store; the body follows.
ThreadEnterIndentStore(t) ==
    /\ flow[t].pc = "enter_indent_store"
    /\ indent_level' = flow[t].reg + 1
    /\ flow' = [flow EXCEPT ![t].pc = "body", ![t].depth = @ + 1, ![t].reg = 0]
    /\ UNCHANGED <<nest_level, printed_on_secondary_indents, out_vars, flow_vars,
                   child_vars, thread_vars, exec_vars, env_vars, counter>>

\* IndentedLogger.__exit__: _indent_level -= 1, the load.
ThreadExitIndentLoad(t) ==
    /\ flow[t].depth > 0
    /\ ThreadLoad(t, "body", indent_level, "exit_indent_store")

\* Variant: the store puts back the value that was loaded.
ThreadExitIndentStore_no_decrement(t) ==
    /\ flow[t].pc = "exit_indent_store"
    /\ indent_level' = flow[t].reg
    /\ flow' = [flow EXCEPT ![t].pc = "exit_check", ![t].reg = 0]
    /\ UNCHANGED <<nest_level, printed_on_secondary_indents, out_vars, flow_vars,
                   child_vars, thread_vars, exec_vars, env_vars, counter>>

\* IndentedLogger.__exit__: _indent_level -= 1, the store.
ThreadExitIndentStore(t) ==
    /\ flow[t].pc = "exit_indent_store"
    /\ indent_level' = flow[t].reg - 1
    /\ flow' = [flow EXCEPT ![t].pc = "exit_check", ![t].reg = 0]
    /\ UNCHANGED <<nest_level, printed_on_secondary_indents, out_vars, flow_vars,
                   child_vars, thread_vars, exec_vars, env_vars, counter>>

\* IndentedLogger.__exit__, line 157: if (IndentedLogger._indent_level == 0 and ...
\* by the value the attribute has when the thread reads it.
ThreadExitCheck(t) ==
    /\ flow[t].pc = "exit_check"
    /\ Goto(t, IF indent_level = 0 THEN "exit_check_flag" ELSE "exit_nest_load")
    /\ UNCHANGED <<logger_vars, out_vars, flow_vars, child_vars, thread_vars, exec_vars,
                   env_vars, counter>>

\* IndentedLogger.__exit__, line 158: ... IndentedLogger._printed_on_secondary_indents):
\* read only when line 157 found the level 0, by the value the flag has then.
ThreadExitCheckFlag(t) ==
    /\ flow[t].pc = "exit_check_flag"
    /\ Goto(t, IF printed_on_secondary_indents THEN "exit_write" ELSE "exit_nest_load")
    /\ UNCHANGED <<logger_vars, out_vars, flow_vars, child_vars, thread_vars, exec_vars,
                   env_vars, counter>>

\* IndentedLogger.__exit__, line 159: sys.stderr.write("\n")
ThreadExitWrite(t) ==
    /\ flow[t].pc = "exit_write"
    /\ stderr' = Append(stderr, <<NL>>)
    /\ Goto(t, "exit_clear")
    /\ UNCHANGED <<logger_vars, stdout, flow_vars, child_vars, thread_vars, exec_vars,
                   env_vars, counter>>

\* IndentedLogger.__exit__, line 160: _printed_on_secondary_indents = False
ThreadExitClear(t) ==
    /\ flow[t].pc = "exit_clear"
    /\ printed_on_secondary_indents' = FALSE
    /\ Goto(t, "exit_nest_load")
    /\ UNCHANGED <<indent_level, nest_level, out_vars, flow_vars, child_vars, thread_vars,
                   exec_vars, env_vars, counter>>

\* Task.__exit__: Task.nest_level -= 1, the load.
ThreadExitNestLoad(t) == ThreadLoad(t, "exit_nest_load", nest_level, "exit_nest_store")

\* Task.__exit__: Task.nest_level -= 1, the store; the with-block is left.
ThreadExitNestStore(t) ==
    /\ flow[t].pc = "exit_nest_store"
    /\ nest_level' = flow[t].reg - 1
    /\ flow' = [flow EXCEPT ![t].pc = "body", ![t].depth = @ - 1, ![t].reg = 0]
    /\ UNCHANGED <<indent_level, printed_on_secondary_indents, out_vars, flow_vars,
                   child_vars, thread_vars, exec_vars, env_vars, counter>>

----------------------------------------------------------------------------
\* The specification.

Init ==
    /\ indent_level = 0
    /\ printed_on_secondary_indents = FALSE
    /\ nest_level = 0
    /\ stderr = <<>>
    /\ stdout = <<>>
    /\ scopes = <<>>
    /\ pc = "idle"
    /\ exc = NoExc
    /\ last = NoLast
    /\ call = NoCall
    /\ proc = NoProc
    /\ pipe = << <<>>, <<>> >>
    /\ closed = <<FALSE, FALSE>>
    /\ thr = <<NoThread, NoThread>>
    /\ queue = << <<>>, <<>> >>
    /\ ticker = NoTicker
    /\ chan = NoChan
    /\ local = NoLocal
    /\ container = <<>>
    /\ result = NoResult
    /\ environ = HostEnviron
    /\ parent = <<>>
    /\ envlast = NoEnvLast
    /\ flow = [t \in Threads |-> NoFlow]
    /\ counter = 0

Next ==
    \/ \E d \in Descriptions : TaskInit(d)
    \/ TaskEnter
    \/ ScopeExit
    \/ Drain
    \/ \E s \in Strategies, a \in Commands, kw \in InstantFailArgs,
          e \in OsErrors \cup {<<>>} : ExecuteCall(s, a, kw, e, NoEnvArg)
    \/ \E i \in 1..2 : \E b \in ChildBytes(i) : ChildWrite(i, b)
    \/ \E i \in 1..2 : ChildClose(i)
    \/ \E rc \in Statuses : ChildExit(rc)
    \/ \E i \in 1..2 : ReaderRead(i)
    \/ \E i \in 1..2 : ReaderPut(i)
    \/ \E i \in 1..2 : ReaderExit(i)
    \/ \E i \in 1..2 : PrinterRead(i)
    \/ \E i \in 1..2 : PrinterBlank(i)
    \/ \E i \in 1..2 : PrinterBlankWrite(i)
    \/ \E i \in 1..2 : PrinterForward(i)
    \/ \E i \in 1..2 : PrinterForwardWrite(i)
    \/ \E i \in 1..2 : PrinterEOF(i)
    \/ TickerTimeout
    \/ TickerDot
    \/ TickerWake
    \/ oof_start
    \/ oof_start_stderr
    \/ oof_get_stdout
    \/ oof_get_stderr
    \/ oof_join_stderr
    \/ oof_join_stdout
    \/ oof_wait
    \/ oof_message_newline_begin
    \/ oof_message_newline
    \/ oof_message_stdout_begin
    \/ oof_message_stdout
    \/ oof_message_stderr_begin
    \/ oof_message_stderr
    \/ lr_start
    \/ lr_write_done
    \/ lr_join
    \/ lr_close
    \/ ro_start
    \/ ro_start_stderr
    \/ ro_wait
    \/ ro_join_stdout
    \/ ro_join_stderr
    \/ exec_check
    \/ exec_note_failure
    \/ exec_close
    \/ ExecuteReturn

\* The main flow running commands inside Task scopes.
Spec == Init /\ [][Next]_vars

\* The logger and the scopes alone: the main flow logs texts, opens and leaves
\* Task and IndentedLogger scopes, and may raise inside them.
NextLogger ==
    \/ \E d \in Descriptions : TaskInit(d)
    \/ TaskEnter
    \/ LoggerEnter
    \/ ScopeExit
    \/ \E t \in Texts : Message(t)
    \/ Dot
    \/ BodyRaise
    \/ Drain

SpecLogger == Init /\ [][NextLogger]_vars

\* Commands run as in Spec, with a read of one of the child's streams that may fail.
NextFault ==
    \/ Next
    \/ \E i \in 1..2 : ReadFails(i)
    \/ \E i \in 1..2 : ReadFailsEnd(i)

SpecFault == Init /\ [][NextFault]_vars

\* Client threads, each running Task scopes and messages of its own.
NextThreads ==
    \/ \E t \in Threads : ThreadStart(t)
    \/ \E t \in Threads, d \in Descriptions : ThreadTaskInit(t, d)
    \/ \E t \in Threads : ThreadMessage(t, <<"m">>)
    \/ \E t \in Threads : ThreadMessageTest(t)
    \/ \E t \in Threads : ThreadMessageFlag(t)
    \/ \E t \in Threads : ThreadMessageIndent(t)
    \/ \E t \in Threads : ThreadMessageWrite(t)
    \/ \E t \in Threads : ThreadEnterNestLoad(t)
    \/ \E t \in Threads : ThreadEnterNestStore(t)
    \/ \E t \in Threads : ThreadEnterIndentLoad(t)
    \/ \E t \in Threads : ThreadEnterIndentStore(t)
    \/ \E t \in Threads : ThreadExitIndentLoad(t)
    \/ \E t \in Threads : ThreadExitIndentStore(t)
    \/ \E t \in Threads : ThreadExitCheck(t)
    \/ \E t \in Threads : ThreadExitCheckFlag(t)
    \/ \E t \in Threads : ThreadExitWrite(t)
    \/ \E t \in Threads : ThreadExitClear(t)
    \/ \E t \in Threads : ThreadExitNestLoad(t)
    \/ \E t \in Threads : ThreadExitNestStore(t)

SpecThreads == Init /\ [][NextThreads]_vars

\* What the main flow does next inside execute.
MainStep ==
    \/ oof_start \/ oof_start_stderr \/ oof_get_stdout \/ oof_get_stderr
    \/ oof_join_stderr \/ oof_join_stdout \/ oof_wait
    \/ oof_message_newline_begin \/ oof_message_newline
    \/ oof_message_stdout_begin \/ oof_message_stdout
    \/ oof_message_stderr_begin \/ oof_message_stderr
    \/ lr_start \/ lr_write_done \/ lr_join \/ lr_close
    \/ ro_start \/ ro_start_stderr \/ ro_wait \/ ro_join_stdout \/ ro_join_stderr
    \/ exec_check \/ exec_note_failure \/ exec_close \/ ExecuteReturn

\* What the worker thread of stream i does next.
WorkerStep(i) ==
    \/ ReaderRead(i) \/ ReaderPut(i) \/ ReaderExit(i)
    \/ PrinterRead(i) \/ PrinterBlank(i) \/ PrinterBlankWrite(i)
    \/ PrinterForward(i) \/ PrinterForwardWrite(i) \/ PrinterEOF(i)

\* What the ticker does once select() has returned, or returns at once.
TickerStep == TickerDot \/ TickerWake

\* The child exits while neither of its pipes is full.
ChildExitsUnblocked ==
    /\ \A i \in 1..2 : Len(pipe[i]) < PipeCap
    /\ \E rc \in Statuses : ChildExit(rc)

\* One command after another that starts, outside any Task scope and for as long as
\* nothing is logged, under output_on_fail or running_output; the child writes bytes
\* other than newlines.
NextRun ==
    \/ \E s \in {"output_on_fail", "running_output"}, a \in Commands :
          ExecuteCall(s, a, "None", <<>>, NoEnvArg)
    \/ \E i \in 1..2 : \E b \in ChildBytes(i) \ {NL} : ChildWrite(i, b)
    \/ \E i \in 1..2 : ChildClose(i)
    \/ \E rc \in Statuses : ChildExit(rc)
    \/ \E i \in 1..2 : ReaderRead(i)
    \/ \E i \in 1..2 : ReaderPut(i)
    \/ \E i \in 1..2 : ReaderExit(i)
    \/ \E i \in 1..2 : PrinterRead(i)
    \/ \E i \in 1..2 : PrinterBlank(i)
    \/ \E i \in 1..2 : PrinterBlankWrite(i)
    \/ \E i \in 1..2 : PrinterForward(i)
    \/ \E i \in 1..2 : PrinterForwardWrite(i)
    \/ \E i \in 1..2 : PrinterEOF(i)
    \/ oof_start
    \/ oof_start_stderr
    \/ oof_get_stdout
    \/ oof_get_stderr
    \/ oof_join_stderr
    \/ oof_join_stdout
    \/ oof_wait
    \/ oof_message_newline_begin
    \/ oof_message_newline
    \/ oof_message_stdout_begin
    \/ oof_message_stdout
    \/ oof_message_stderr_begin
    \/ oof_message_stderr
    \/ ro_start
    \/ ro_start_stderr
    \/ ro_wait
    \/ ro_join_stdout
    \/ ro_join_stderr
    \/ exec_check
    \/ exec_note_failure
    \/ exec_close
    \/ ExecuteReturn

\* The same with the heartbeat strategy, for a child that writes nothing.
NextDots ==
    \/ \E a \in Commands :
          ExecuteCall("long_running_suppressed_output", a, "None", <<>>, NoEnvArg)
    \/ \E i \in 1..2 : ChildClose(i)
    \/ \E rc \in Statuses : ChildExit(rc)
    \/ \E i \in 1..2 : ReaderPut(i)
    \/ \E i \in 1..2 : ReaderExit(i)
    \/ TickerTimeout
    \/ TickerDot
    \/ TickerWake
    \/ lr_start
    \/ oof_start
    \/ oof_start_stderr
    \/ oof_get_stdout
    \/ oof_get_stderr
    \/ oof_join_stderr
    \/ oof_join_stdout
    \/ oof_wait
    \/ oof_message_newline_begin
    \/ oof_message_newline
    \/ oof_message_stdout_begin
    \/ oof_message_stdout
    \/ oof_message_stderr_begin
    \/ oof_message_stderr
    \/ lr_write_done
    \/ lr_join
    \/ lr_close
    \/ exec_check
    \/ exec_note_failure
    \/ exec_close
    \/ ExecuteReturn

\* Every thread of the process that can run does run, and a child that is not held
\* up by a full pipe closes its streams and exits.
Fairness ==
    /\ WF_vars(MainStep)
    /\ \A i \in 1..2 : WF_vars(WorkerStep(i))
    /\ WF_vars(TickerStep)
    /\ WF_vars(ChildExitsUnblocked)

SpecLive == Init /\ [][NextRun]_vars /\ Fairness

SpecDotsLive == Init /\ [][NextDots]_vars /\ Fairness

\* Commands given an env keyword, run with output_on_fail between changes the main
\* flow makes to os.environ; the child writes nothing.
NextSpawn ==
    \/ \E k \in Keys, v \in {PyNone, PyStr(<<"a">>)} :
          pc = "idle" /\ overwrite_environment_variable(k, v)
    \/ \E a \in Commands, kw \in InstantFailArgs, e \in OsErrors \cup {<<>>},
          env \in EnvArgs : ExecuteCall("output_on_fail", a, kw, e, env)
    \/ \E i \in 1..2 : ChildClose(i)
    \/ \E rc \in Statuses : ChildExit(rc)
    \/ \E i \in 1..2 : ReaderPut(i)
    \/ \E i \in 1..2 : ReaderExit(i)
    \/ oof_start
    \/ oof_start_stderr
    \/ oof_get_stdout
    \/ oof_get_stderr
    \/ oof_join_stderr
    \/ oof_join_stdout
    \/ oof_wait
    \/ oof_message_newline_begin
    \/ oof_message_newline
    \/ oof_message_stdout_begin
    \/ oof_message_stdout
    \/ oof_message_stderr_begin
    \/ oof_message_stderr
    \/ exec_check
    \/ exec_note_failure
    \/ exec_close
    \/ ExecuteReturn
    \/ Drain

SpecSpawn == Init /\ [][NextSpawn]_vars

\* The environment helpers alone, called one after another.
NextEnv ==
    \/ \E k \in Keys, v \in Values : overwrite_environment_variable(k, v)
    \/ \E k \in Keys, v \in EntryValues : prepend_environment_variable(k, v)
    \/ \E k \in Keys, v \in EntryValues : remove_from_environment_variable(k, v)
    \/ \E n \in CommandNames, c \in CommandTexts : define_command(n, c)

SpecEnv == Init /\ [][NextEnv]_vars


----------------------------------------------------------------------------
\* Vocabulary of the properties.

\* What sys.stderr received since the execute call in progress began.
SinceCall == SubSeq(stderr, call.len0 + 1, Len(stderr))

\* What sys.stderr received in the operation the main flow completed last.
SinceLast == SubSeq(stderr, last.len0 + 1, Len(stderr))

\* The strategy has handed control back to execute.
AfterStrategy == pc \in {"exec_check", "exec_note", "exec_close", "exec_return"}

\* execute is about to hand control back to its caller.
Leaving == pc = "exec_return"

Spaces(n) == [i \in 1..n |-> " "]

\* text with 4*d spaces after every newline and carriage return.
Indented(text, d) ==
    Flat([i \in 1..Len(text) |->
            IF text[i] \in {NL, CR} THEN <<text[i]>> \o Spaces(4 * d) ELSE <<text[i]>>])

\* s occurs in t as a run of consecutive characters.
Infix(s, t) == \E i \in 0..(Len(t) - Len(s)) : SubSeq(t, i + 1, i + Len(s)) = s

\* !!! Process {command joined by spaces} failed with {status}
BannerText(args, status) ==
    <<"!", "!", "!", " ", "P", "r", "o", "c", "e", "s", "s", " ">> \o str_join(<<" ">>, args) \o <<" ", "f", "a", "i", "l", "e", "d", " ", "w", "i", "t", "h", " ">> \o IntStr(status)

\* Positions in sys.stderr of the writes of the failure banner during this call.
BannerAt ==
    {i \in (call.len0 + 1)..Len(stderr) : stderr[i] = BannerText(call.args, local.status)}

\* The main flow has just completed the operation op.
JustDid(op) == last.op = op /\ call.strategy = "none"

----------------------------------------------------------------------------
\* Properties.

\* C1: when execute returns or raises after the child was spawned, process.stdout
\* and process.stderr are both closed, whether the strategy returned, the strategy
\* raised or note_failure raised.
C1_StreamsClosed == (Leaving /\ proc.spawned) => (closed[1] /\ closed[2])

\* C1 witness: note_failure raised, and execute leaves with both streams closed.
C1_Witness ==
    /\ Leaving /\ proc.spawned
    /\ result.kind = "raise" /\ result.error = Abort
    /\ closed[1] /\ closed[2]


\* C2: when the strategy returned a nonzero status, the failure banner was logged
\* exactly once and then note_failure was called exactly once, with the caller's
\* instant_fail (False when not given); when it returned 0, neither happened.
C2_FailureReportedOnce ==
    (Leaving /\ local.has_status) =>
        IF local.status # 0
        THEN /\ Cardinality(BannerAt) = 1
             /\ Len(container) = 1
             /\ container[1].arg = (IF call.instant_fail = "None" THEN "False"
                                    ELSE call.instant_fail)
             /\ \A i \in BannerAt : i <= container[1].at
        ELSE /\ BannerAt = {}
             /\ container = <<>>

\* C2 witness: a failing command run without instant_fail has been reported.
C2_Witness ==
    /\ Leaving /\ local.has_status /\ local.status = 2
    /\ call.instant_fail = "None"
    /\ Cardinality(BannerAt) = 1
    /\ Len(container) = 1 /\ container[1].arg = "False"

\* C3: execute returns the status the strategy reported, for every status, also
\* after a nonzero status was logged and note_failure was called and returned.
C3_ReturnsStatus ==
    (Leaving /\ local.has_status /\ local.pending = NoExc) =>
        /\ result.kind = "return"
        /\ result.status = local.status
        /\ result.status = proc.returncode

\* C3 witness: a nonzero status was logged, reported and returned.
C3_Witness ==
    /\ Leaving /\ local.has_status /\ local.status = 2
    /\ BannerAt # {} /\ Len(container) = 1
    /\ result.kind = "return" /\ result.status = 2

\* C4: when Popen fails with an OSError, execute raises an error whose text holds
\* the command line joined by spaces and the OSError's text; the strategy is not
\* invoked, nothing is logged, note_failure is not called, Popen is called once.
C4_SpawnError ==
    (Leaving /\ ~proc.spawned) =>
        /\ result.kind = "raise"
        /\ Infix(str_join(<<" ">>, call.args), result.error)
        /\ Infix(call.oserror, result.error)
        /\ ~local.invoked
        /\ SinceCall = <<>>
        /\ container = <<>>
        /\ proc.attempts = 1

\* C4 witness: Popen failed and execute is raising.
C4_Witness ==
    /\ Leaving /\ ~proc.spawned
    /\ call.oserror # <<>>
    /\ result.kind = "raise"
    /\ Len(result.error) > Len(call.oserror)

\* C5: once the strategy has handed control back, each thread it started (the two
\* readers, and the ticker when used) has terminated and has been joined.
C5_WorkersJoined ==
    (AfterStrategy /\ local.invoked) =>
        /\ \A i \in 1..2 : thr[i].st = "done" /\ thr[i].joined
        /\ ticker.st \in {"none", "done"}
        /\ ticker.st = "done" => ticker.joined
        /\ call.strategy = "long_running_suppressed_output" => ticker.st = "done"

\* C5 witness: the heartbeat strategy returned after a dot; all three threads joined.
C5_Witness ==
    /\ Leaving /\ local.has_status
    /\ call.strategy = "long_running_suppressed_output"
    /\ ticker.dots > 0 /\ ticker.joined
    /\ \A i \in 1..2 : thr[i].joined


\* The marker of the header Task.__init__ wrote last: the three characters that
\* follow the newline and the indent.
MarkerWritten ==
    SubSeq(stderr[Len(stderr)], 2 + 4 * last.indent0, 4 + 4 * last.indent0)

\* C6: a Task constructed while Task.nest_level is 0 announces itself with ==>, one
\* constructed while it is above 0 with ...; the marker is followed by a space and
\* the description.
C6_TaskMarker ==
    JustDid("Task") =>
        /\ SinceLast # <<>>
        /\ MarkerWritten = (IF last.nest0 = 0 THEN <<"=", "=", ">">>
                            ELSE <<".", ".", ".">>)
        /\ (MarkerWritten = <<"=", "=", ">">>) <=> (last.nest0 = 0)
        /\ SubSeq(stderr[Len(stderr)], 5 + 4 * last.indent0, Len(stderr[Len(stderr)]))
               = <<" ">> \o last.arg

\* C6 witness: a Task constructed inside another Task wrote the marker "...".
C6_Witness ==
    /\ JustDid("Task") /\ last.nest0 = 1
    /\ MarkerWritten = <<".", ".", ".">>

\* C7: message(text) at indent depth d writes, in one write, text with 4*d spaces
\* put after every newline and every carriage return, and nothing else.
C7_MessageIndent ==
    JustDid("message") =>
        /\ Len(stderr) = last.len0 + 1
        /\ stderr[Len(stderr)] = Indented(last.arg, last.indent0)

\* C7 witness: a text with a carriage return and a newline was logged at depth 2.
C7_Witness ==
    /\ JustDid("message") /\ last.indent0 = 2
    /\ last.arg = <<CR, NL>>
    /\ Len(stderr[Len(stderr)]) = 18

\* C8: leaving a Task scope entered at depth 0 writes exactly one newline if a
\* message was logged at depth above 0 during it, and nothing otherwise; leaving a
\* scope with the depth still above 0 writes nothing.
C8_TrailingNewline ==
    JustDid("exit") =>
        /\ (last.scope.kind = "Task" /\ last.scope.indent0 = 0) =>
               SinceLast = (IF last.scope.nested THEN << <<NL>> >> ELSE <<>>)
        /\ indent_level > 0 => SinceLast = <<>>

\* C8 witness: a top-level Task that held a nested Task has been left.
C8_Witness ==
    /\ JustDid("exit")
    /\ last.scope.kind = "Task" /\ last.scope.indent0 = 0 /\ last.scope.nested
    /\ SinceLast = << <<NL>> >>

\* C9: after a Task scope is left, normally or by an exception, the indent depth and
\* the task nest level are what they were before it was entered, and an exception
\* raised in the body is still propagating.
C9_ScopeRestores ==
    (JustDid("exit") /\ last.scope.kind = "Task") =>
        /\ indent_level = last.scope.indent0
        /\ nest_level = last.scope.nest0
        /\ exc = last.exc0

\* C9 witness: a nested Task scope was left by an exception.
C9_Witness ==
    /\ JustDid("exit") /\ last.scope.kind = "Task"
    /\ last.scope.nest0 = 1
    /\ last.exc0 # NoExc /\ exc # NoExc


\* C10: under output_on_fail the child's captured output is logged if and only if
\* the status is nonzero: then a newline, all the child wrote to stdout and all it
\* wrote to stderr are logged; until then, and for status 0, nothing is logged.
C10_OutputOnFail ==
    (call.strategy = "output_on_fail" /\ ~Leaving) =>
        IF AfterStrategy /\ local.has_status /\ local.status # 0
        THEN /\ Len(SinceCall) >= 3
             /\ SinceCall[1] = Indented(<<NL>>, indent_level)
             /\ SinceCall[2] = Indented(proc.written[1], indent_level)
             /\ SinceCall[3] = Indented(proc.written[2], indent_level)
        ELSE \/ pc \in {"oof_msg0", "oof_msg0_write", "oof_msg1", "oof_msg1_write",
                       "oof_msg2", "oof_msg2_write"}
             \/ SinceCall = <<>>

\* C10 witness: a failing command that wrote to both streams had all of it logged.
C10_Witness ==
    /\ call.strategy = "output_on_fail" /\ pc = "exec_close"
    /\ local.status = 2
    /\ proc.written = << <<NL, "x">>, <<"e">> >>
    /\ SinceCall[2] = Indented(<<NL, "x">>, indent_level)
    /\ SinceCall[3] = <<"e">>

\* Bytes the child has written to both of its streams.
ChildTotal == Len(proc.written[1]) + Len(proc.written[2])

\* A newline as message() writes it at the current depth.
NewlineWrite == Indented(<<NL>>, indent_level)

\* Writes running_output made beyond one per byte of the child: its blank lines.
ExtraNewlines == Len(SinceCall) - ChildTotal

\* C11: under running_output, once the child's output has been shown, at most one
\* extra newline was logged; it was logged if and only if the first byte shown is
\* not a newline, and it comes first, so that the extra newline is never followed
\* by another newline at the start of the log.
C11_LeadingNewline ==
    (call.strategy = "running_output" /\ pc = "exec_check" /\ ChildTotal > 0) =>
        /\ ExtraNewlines <= 1
        /\ SinceCall[1] = NewlineWrite
        /\ ExtraNewlines = 1 => SinceCall[2] # NewlineWrite

\* The heartbeat strategy is the one in use.
Heartbeat == call.strategy = "long_running_suppressed_output"

\* Number of heartbeat dots sys.stderr holds.
DotsLogged == Cardinality({i \in 1..Len(stderr) : stderr[i] = <<".">>})

\* C12, as stated: under the heartbeat strategy no dot is emitted once the wrapped
\* strategy has captured the child's exit status.
C12_NoDotAfterStatus ==
    [][(Heartbeat /\ local.has_status) => DotsLogged' <= DotsLogged]_vars

\* C12, amended: under the heartbeat strategy no dot is emitted once the strategy
\* has handed control back to execute, the ticker having been joined.
C12_NoDotAfterReturn ==
    [][(Heartbeat /\ AfterStrategy) => DotsLogged' <= DotsLogged]_vars

\* C12 witness: the heartbeat strategy has returned a status after a dot was logged.
C12_Witness ==
    /\ Heartbeat /\ pc = "exec_check" /\ local.has_status
    /\ ticker.joined /\ DotsLogged = 1

\* C13: nothing the logging and execution core does writes to sys.stdout: what
\* print_message, message, dot, a scope exit, a Task header, execute and the
\* strategies emit goes to sys.stderr, and sys.stdout holds nothing.
C13_StdoutUntouched == stdout = <<>>

\* C13 witness: inside a Task, a failing command run under the heartbeat strategy
\* has logged a dot, the child's output and the failure banner, all to sys.stderr.
C13_Witness ==
    /\ Heartbeat /\ pc = "exec_close" /\ nest_level = 1
    /\ DotsLogged = 1 /\ BannerAt # {}
    /\ Len(SinceCall) = 5
    /\ stdout = <<>>

\* The text a variable held before the last environment operation, unset counting
\* as the empty text.
TextBefore(key) ==
    IF envlast.environ0[key].set THEN envlast.environ0[key].val ELSE <<>>

\* The parent collaborator received, in the last operation, exactly one call, the
\* call op(key, value) with the operation's own arguments.
ParentGotCall(op) ==
    /\ Len(parent) = envlast.nparent0 + 1
    /\ parent[Len(parent)] = [op |-> op, key |-> envlast.key, value |-> envlast.value]

\* C15: after overwrite_environment_variable(parent, key, value) with a value that
\* is not None, os.environ maps key to str(value); with None, for a key that was
\* set, key is absent; the parent receives exactly that one call and every other
\* variable is unchanged.
C15_Overwrite ==
    (envlast.op = "overwrite" /\
       (envlast.value # PyNone \/ envlast.environ0[envlast.key].set)) =>
        /\ envlast.raised = NoExc
        /\ IF envlast.value # PyNone
           THEN /\ environ[envlast.key].set
                /\ environ[envlast.key].val = py_str(envlast.value)
           ELSE ~environ[envlast.key].set
        /\ ParentGotCall("overwrite")
        /\ \A k \in Keys \ {envlast.key} : environ[k] = envlast.environ0[k]

\* C15 witness: K, which was set, has been overwritten with None after L was
\* overwritten with the integer 7.
C15_Witness ==
    /\ envlast.op = "overwrite" /\ envlast.key = "K" /\ envlast.value = PyNone
    /\ envlast.environ0["K"].set /\ ~environ["K"].set
    /\ environ["L"] = EnvStr(<<"7">>)
    /\ Len(parent) = 2

\* C16: after prepend_environment_variable(parent, key, value) the colon-separated
\* list in key is str(value) followed by the entries the variable held before, in
\* their order, an unset variable counting as empty; the parent receives the call.
C16_Prepend ==
    envlast.op = "prepend" =>
        /\ environ[envlast.key].set
        /\ str_split(environ[envlast.key].val)
               = <<py_str(envlast.value)>> \o str_split(TextBefore(envlast.key))
        /\ ParentGotCall("prepend")

\* C16 witness: 7 was prepended to the list b:a, giving the entries 7, b, a.
C16_Witness ==
    /\ envlast.op = "prepend" /\ envlast.value = PyInt(7)
    /\ TextBefore(envlast.key) = <<"b", ":", "a">>
    /\ str_split(environ[envlast.key].val) = << <<"7">>, <<"b">>, <<"a">> >>

\* The entries of a list other than those equal to value.
OtherEntries(entries, value) ==
    SelectSeq(entries, LAMBDA e : ~(value.t = "str" /\ e = value.s))

\* C17: after remove_from_environment_variable(parent, key, value) the list in key
\* has no entry equal to value and holds every other entry it held before, in the
\* same order; the parent receives the call.
C17_Remove ==
    envlast.op = "remove" =>
        LET new == str_split(environ[envlast.key].val)
            kept == OtherEntries(str_split(TextBefore(envlast.key)), envlast.value)
        IN  /\ environ[envlast.key].set
            /\ \A i \in 1..Len(new) : ~(envlast.value.t = "str" /\ new[i] = envlast.value.s)
            /\ IF kept = <<>> THEN environ[envlast.key].val = <<>> ELSE new = kept
            /\ ParentGotCall("remove")

\* C17 witness: a was removed from the list a:b:a, which left the list b.
C17_Witness ==
    /\ envlast.op = "remove" /\ envlast.value = PyStr(<<"a">>)
    /\ TextBefore(envlast.key) = <<"a", ":", "b", ":", "a">>
    /\ environ[envlast.key] = EnvStr(<<"b">>)

\* IndentedLogger scopes the main flow entered directly and has not left.
BareLoggerScopes ==
    Cardinality({i \in 1..Len(scopes) : scopes[i].kind = "IndentedLogger"})

\* C18, as stated: the task nest level equals the logger's indent depth after any
\* sequence of Task scopes, IndentedLogger scopes entered directly and messages.
C18_Lockstep == nest_level = indent_level

\* C18, amended: the indent depth exceeds the task nest level by the number of
\* IndentedLogger scopes entered directly that are still open, so the two counters
\* are equal whenever every open scope is a Task.
C18_LockstepInTasks == indent_level = nest_level + BareLoggerScopes

\* C18 witness: a Task entered inside an IndentedLogger scope, depth 2 and nest
\* level 1.
C18_Witness ==
    /\ Len(scopes) = 2
    /\ scopes[1].kind = "IndentedLogger" /\ scopes[2].kind = "Task"
    /\ indent_level = 2 /\ nest_level = 1

\* The step is the part of a message() call that holds its lines 164-165: the whole
\* call where it is one step (a text other than a dot is written), or the first half
\* of a call a printer or output_on_fail makes.
MessageFlagStep ==
    \/ /\ Len(stderr') = Len(stderr) + 1
       /\ stderr'[Len(stderr')] # <<".">>
    \/ /\ stderr' = stderr
       /\ \/ \E i \in 1..2 : /\ thr[i].st = "blank" /\ thr'[i].st = "blank_write"
          \/ \E i \in 1..2 : /\ thr[i].st = "forward" /\ thr'[i].st = "forward_write"
          \/ pc = "oof_msg0" /\ pc' = "oof_msg0_write"
          \/ pc = "oof_msg1" /\ pc' = "oof_msg1_write"
          \/ pc = "oof_msg2" /\ pc' = "oof_msg2_write"

\* C19: the flag _printed_on_secondary_indents goes from true to false only in a
\* scope exit that brings the indent depth to 0, and from false to true only in a
\* message() call made at a depth above 0; no dot, scope entry, other scope exit or
\* other step of execute changes it.
C19_FlagChanges ==
    [][/\ (printed_on_secondary_indents /\ ~printed_on_secondary_indents') =>
              /\ Len(scopes') = Len(scopes) - 1
              /\ indent_level = 1 /\ indent_level' = 0
       /\ (~printed_on_secondary_indents /\ printed_on_secondary_indents') =>
              /\ indent_level > 0 /\ indent_level' = indent_level
              /\ MessageFlagStep]_vars

\* C19 witness: leaving the outermost scope, in which a message was logged at a
\* depth above 0, has cleared the flag.
C19_Witness ==
    /\ JustDid("exit") /\ indent_level = 0
    /\ last.printed0 /\ last.scope.nested
    /\ ~printed_on_secondary_indents

\* C20: under output_on_fail with a nonzero status the log receives, one after the
\* other and with nothing between them, a newline, all of the child's stdout, all
\* of the child's stderr and then the failure banner of execute.
C20_FailureOrder ==
    (/\ call.strategy = "output_on_fail"
     /\ pc \in {"exec_note", "exec_close", "exec_return"}
     /\ local.has_status /\ local.status # 0) =>
        SinceCall = <<NewlineWrite,
                      Indented(proc.written[1], indent_level),
                      Indented(proc.written[2], indent_level),
                      BannerText(call.args, local.status)>>

\* C20 witness: inside a Task a failing command that wrote to both streams has had
\* its output and then the banner logged.
C20_Witness ==
    /\ call.strategy = "output_on_fail" /\ pc = "exec_note"
    /\ local.status = 2 /\ indent_level = 1
    /\ proc.written = << <<"x", NL>>, <<"e">> >>
    /\ Len(SinceCall) = 4
    /\ SinceCall[2] = <<"x", NL, " ", " ", " ", " ">>
    /\ SinceCall[4] = BannerText(call.args, 2)

\* C21: within one running_output invocation the blank line comes from the printer
\* of stdout only: the printer of stderr never logs one, and at most one is logged
\* in the invocation.
C21_BlankLineFromStdoutOnly ==
    call.strategy = "running_output" =>
        /\ thr[2].st # "blank"
        /\ pc = "exec_check" => ExtraNewlines <= 1

\* s is an initial part of t.
IsPrefix(s, t) == Len(s) <= Len(t) /\ SubSeq(t, 1, Len(s)) = s

\* C22: under running_output, for each stream, the bytes its printer handed to the
\* logger are at every moment an initial part of what the child wrote to that
\* stream, and all of it once running_output has returned or raised.
C22_StreamsForwarded ==
    call.strategy = "running_output" =>
        \A i \in 1..2 :
            /\ IsPrefix(thr[i].sent, proc.written[i])
            /\ (AfterStrategy /\ local.invoked) => thr[i].sent = proc.written[i]

\* C22 witness: running_output returned after both streams were forwarded, a byte
\* of stderr having gone out between two bytes of stdout.
C22_Witness ==
    /\ call.strategy = "running_output" /\ pc = "exec_check"
    /\ thr[1].sent = <<"x", NL>> /\ thr[2].sent = <<"e">>
    /\ SinceCall = << <<NL>>, <<"x">>, <<NL>>, <<"e">>, <<NL>> >>

\* C23: in the heartbeat strategy, whether output_on_fail returned or raised, the
\* done signal is written before the ticker is joined and the ticker is joined
\* before either end of the channel is closed; the ticker never waits on a closed
\* end; the strategy hands back all three done, with the status output_on_fail got.
C23_HeartbeatCleanup ==
    Heartbeat =>
        /\ ticker.joined => (chan.written /\ ticker.st = "done")
        /\ (chan.rclosed \/ chan.wclosed) => ticker.joined
        /\ ticker.st \in {"select", "dot"} => (chan.open /\ ~chan.rclosed /\ ~chan.wclosed)
        /\ (AfterStrategy /\ local.invoked) =>
               /\ chan.written /\ ticker.joined /\ chan.rclosed /\ chan.wclosed
               /\ local.has_status => local.status = proc.returncode

\* C23 witness: output_on_fail raised inside the heartbeat strategy, after a dot, and
\* the strategy has signalled, joined and closed before the exception went on.
C23_Witness ==
    /\ Heartbeat /\ pc = "exec_close"
    /\ local.pending = WaitError /\ ~local.has_status
    /\ ticker.dots = 1 /\ ticker.joined
    /\ chan.written /\ chan.rclosed /\ chan.wclosed

\* A read failed in the thread of stream i.
ReadFailed == \E i \in 1..2 : thr[i].failed

\* The main flow waits on the queue of a reader that has ended without a put.
WaitsOnDeadReader ==
    \/ pc = "oof_get1" /\ thr[1].failed /\ queue[1] = <<>>
    \/ pc = "oof_get2" /\ thr[2].failed /\ queue[2] = <<>>

\* C24: when a read of one of the child's streams fails in a reader thread, execute
\* does not wait forever and does not return a status: it leaves by raising, with
\* both streams closed.
C24_ReadFailureAborts ==
    ReadFailed =>
        /\ ~WaitsOnDeadReader
        /\ Leaving => (result.kind = "raise" /\ closed[1] /\ closed[2])

\* Thread t logged its last message at an indent other than 4 times the number of
\* scopes it was inside itself.
Misindented(t) == flow[t].logged /\ flow[t].lind # flow[t].lown

\* Every started thread is outside all of its scopes.
AllScopesExited ==
    \A t \in Threads : flow[t].pc \in {"unstarted", "body"} /\ flow[t].depth = 0

\* At most one thread runs Task scopes.
SingleFlow == \E t \in Threads : flow[t].pc = "unstarted"

\* C25: with Task scopes on a single flow of control, every message is indented by
\* 4 times the flow's own nesting depth and the depth is back at its initial value
\* once all scopes have exited; with two threads in overlapping scopes both can fail
\* (the state C25_Witness describes).
C25_SingleFlowSound ==
    SingleFlow =>
        /\ \A t \in Threads : ~Misindented(t)
        /\ AllScopesExited => indent_level = 0

\* Two threads have left all their scopes, the depth is not back at 0, and thread 2
\* wrote its top-level task header one level in.
C25_Witness ==
    /\ ~SingleFlow
    /\ AllScopesExited
    /\ indent_level # 0
    /\ Misindented(2) /\ flow[2].lown = 0 /\ flow[2].lind = 1
    /\ \E k \in 1..Len(stderr) :
           stderr[k] = formatted(task_header(1, <<"D">>), 1)

\* C26: the child's environment is the host's environment at the call with every
\* variable of the env keyword overriding the one of the same name, and os.environ
\* stays as it was throughout the call, with or without the keyword.
C26_ChildEnvironment ==
    call.strategy # "none" =>
        /\ environ = call.environ0
        /\ proc.spawned =>
               \A k \in Keys :
                   proc.env[k] = IF call.env.given /\ call.env.dict[k].set
                                 THEN call.env.dict[k]
                                 ELSE call.environ0[k]

\* A command given env = {"K": "z"} has run in a host whose K and L are both "a".
C26_Witness ==
    /\ pc = "exec_close"
    /\ environ = [k \in Keys |-> EnvStr(<<"a">>)]
    /\ call.env = EnvDict([k \in Keys |-> IF k = "K" THEN EnvStr(<<"z">>) ELSE Unset])
    /\ proc.env = [k \in Keys |-> IF k = "K" THEN EnvStr(<<"z">>) ELSE EnvStr(<<"a">>)]

\* The dots the ticker has written match the timeouts it has seen, at most one was
\* written after the done signal, and it has returned only after that signal.
TickerCounts ==
    Heartbeat =>
        /\ DotsLogged = ticker.dots
        /\ ticker.dots = IF ticker.st = "dot" THEN ticker.timeouts - 1 ELSE ticker.timeouts
        /\ ticker.late <= 1
        /\ ticker.st = "done" => chan.written

\* A select() that finds the channel signalled is followed by the thread's return,
\* with nothing written.
WakeWritesNothing ==
    (ticker.st = "select" /\ chan.written /\ ticker' # ticker)
        => (ticker'.st \in {"done", "none"} /\ ticker'.dots = ticker.dots)

\* C27: the ticker writes exactly one dot for each timeout that finds the channel
\* unsignalled and returns without a dot when it finds it signalled; after the done
\* signal it writes at most one more dot and then terminates, so the join on it
\* completes.
C27_TickerDots ==
    /\ []TickerCounts
    /\ [][WakeWritesNothing]_vars
    /\ []((chan.written /\ ticker.st # "done") => pc = "lr_join")
    /\ (pc = "lr_join") ~> (pc = "lr_close" /\ ticker.st = "done" /\ ticker.joined)

\* The ticker timed out, the done signal was written, the dot came after it, and the
\* join has completed.
C27_Witness ==
    /\ Heartbeat /\ pc = "lr_close"
    /\ ticker.timeouts = 1 /\ ticker.dots = 1 /\ ticker.late = 1
    /\ ticker.st = "done" /\ ticker.joined

\* C28: whenever the indent depth is 0 (scope exits are single steps, so none is in
\* progress), the flag _printed_on_secondary_indents is false, after any sequence of
\* scope entries, scope exits, messages and dots from the initial state.
C28_FlagClearAtDepthZero ==
    indent_level = 0 => ~printed_on_secondary_indents

\* The outermost scope has just been left with the flag set inside it.
C28_Witness ==
    /\ JustDid("exit")
    /\ last.indent0 = 1 /\ last.printed0
    /\ indent_level = 0 /\ ~printed_on_secondary_indents

\* A step of execute or of the strategy it runs, from the call to the return.
ExecuteStep == call.strategy # "none" \/ call'.strategy # "none"

\* The step wrote a heartbeat dot.
DotStep == ticker'.dots = ticker.dots + 1

\* C29: no step of execute or of a strategy changes the indent depth or the task nest
\* level; the flag can only go from false to true, in a message() call made at a
\* depth above 0; a heartbeat dot changes neither the depth nor the flag, and leaving
\* a scope in which no message was logged above depth 0 (dots or nothing) writes no
\* trailing newline.
C29_ExecuteKeepsLoggerState ==
    /\ [][ExecuteStep =>
             /\ indent_level' = indent_level
             /\ nest_level' = nest_level
             /\ printed_on_secondary_indents' # printed_on_secondary_indents =>
                    /\ printed_on_secondary_indents'
                    /\ indent_level > 0
                    /\ MessageFlagStep
             /\ DotStep =>
                    /\ printed_on_secondary_indents' = printed_on_secondary_indents
                    /\ stderr' = Append(stderr, <<".">>)]_vars
    /\ []((JustDid("exit") /\ ~last.scope.nested) => SinceLast = <<>>)

\* Inside a top-level Task the heartbeat strategy has returned status 0 having written
\* one dot: the depth is still 1 and the flag is still false.
C29_Witness ==
    /\ Heartbeat /\ pc = "exec_return"
    /\ result.kind = "return" /\ result.status = 0
    /\ Len(scopes) = 1 /\ ~scopes[1].nested
    /\ indent_level = 1 /\ nest_level = 1 /\ ~printed_on_secondary_indents
    /\ ticker.dots = 1 /\ SinceCall = << <<".">> >>

\* The child cannot write to stream i until the parent reads from it.
ChildBlockedOn(i) == proc.spawned /\ ~proc.exited /\ Len(pipe[i]) = PipeCap

\* The reader of stream i has met end-of-stream.
AtEndOfStream(i) == thr[i].st \in {"exiting", "done"} /\ EndOfStream(i)

\* C30: under output_on_fail and running_output every invocation whose child closes
\* its streams and exits when it is not held up ends, whatever the child writes and
\* however small the pipes: a full pipe is always drained, and output_on_fail waits
\* for the process only after both readers met end-of-stream.
C30_Terminates ==
    /\ (call.strategy # "none") ~> (call.strategy = "none" /\ ~ChildBlockedOn(1) /\ ~ChildBlockedOn(2))
    /\ [](\A i \in 1..2 : ChildBlockedOn(i) => call.strategy # "none")
    /\ [](pc = "oof_wait" => (AtEndOfStream(1) /\ AtEndOfStream(2)))

\* output_on_fail waits for what the stdout reader returns while the child has filled
\* the stderr pipe and written nothing to stdout.
C30_Witness ==
    /\ call.strategy = "output_on_fail" /\ pc = "oof_get1"
    /\ ChildBlockedOn(2) /\ proc.written[1] = <<>>
    /\ thr[1].st = "read" /\ thr[2].st = "read"

====
